---- MODULE Spec2Model ----
(***************************************************************************)
(* Routine CRUD handler (backend/src/routines_handler.py) of the SheGlow   *)
(* concierge: the validator, the trigger-expression compiler, and the      *)
(* POST / PUT / DELETE handlers with their calls to the routines store and *)
(* to the external scheduler.                                              *)
(*                                                                         *)
(* Python values are modelled as tagged records [t |-> tag, v |-> value].  *)
(* A Python str is a sequence of one-character strings, so that strip(),   *)
(* slicing, join() and the time regular expression are computed, not       *)
(* assumed.                                                                *)
(***************************************************************************)
EXTENDS Integers, Sequences, FiniteSets, TLC

(***************************************************************************)
(* Python / JSON values                                                    *)
(***************************************************************************)
None == [t |-> "null"]
Str(s) == [t |-> "str", v |-> s]
Num(n) == [t |-> "num", v |-> n]
List(l) == [t |-> "list", v |-> l]
Dict(f) == [t |-> "dict", v |-> f]
EmptyDict == Dict(<<>>)

IsNone(x) == x.t = "null"
IsStr(x) == x.t = "str"
IsList(x) == x.t = "list"
IsDict(x) == x.t = "dict"

\* Python truthiness of a JSON value ("not x" is ~Truthy(x)).
Truthy(x) ==
  CASE x.t = "null" -> FALSE
    [] x.t = "bool" -> x.v
    [] x.t = "num" -> x.v # 0
    [] x.t = "str" -> Len(x.v) > 0
    [] x.t = "list" -> Len(x.v) > 0
    [] x.t = "dict" -> DOMAIN x.v # {}

\* dict.get(k) and dict.get(k, default)
GetD(d, k, default) == IF k \in DOMAIN d.v THEN d.v[k] ELSE default
Get(d, k) == GetD(d, k, None)
\* "k in d"
Has(d, k) == k \in DOMAIN d.v
\* d[k] = x on a dict value
Put(d, k, x) == Dict([q \in DOMAIN d.v \cup {k} |-> IF q = k THEN x ELSE d.v[q]])

(***************************************************************************)
(* str helpers                                                             *)
(***************************************************************************)
Whitespace == {" ", "\n", "\t", "\r"}
Digits == {"0", "1", "2", "3", "4", "5", "6", "7", "8", "9"}

SetMin(S) == CHOOSE m \in S : \A q \in S : m <= q
SetMax(S) == CHOOSE m \in S : \A q \in S : m >= q

\* str.strip()
Strip(s) ==
  LET keep == {i \in 1..Len(s) : s[i] \notin Whitespace}
  IN IF keep = {} THEN <<>> ELSE SubSeq(s, SetMin(keep), SetMax(keep))

\* s[:n]
Prefix(s, n) == SubSeq(s, 1, IF Len(s) < n THEN Len(s) ELSE n)

\* sep.join(parts), parts a sequence of str contents
RECURSIVE Join(_, _)
Join(sep, parts) ==
  IF Len(parts) = 0 THEN <<>>
  ELSE IF Len(parts) = 1 THEN parts[1]
  ELSE parts[1] \o sep \o Join(sep, Tail(parts))

DigitVal(c) ==
  CASE c = "0" -> 0 [] c = "1" -> 1 [] c = "2" -> 2 [] c = "3" -> 3 [] c = "4" -> 4
    [] c = "5" -> 5 [] c = "6" -> 6 [] c = "7" -> 7 [] c = "8" -> 8 [] c = "9" -> 9

DigitChar(n) == <<"0", "1", "2", "3", "4", "5", "6", "7", "8", "9">>[n + 1]

\* int(s) for a string of one or two ASCII digits
IntOf(s) == IF Len(s) = 1 THEN DigitVal(s[1]) ELSE 10 * DigitVal(s[1]) + DigitVal(s[2])

\* f"{n}" for n >= 0
RECURSIVE IntStr(_)
IntStr(n) == IF n < 10 THEN <<DigitChar(n)>> ELSE IntStr(n \div 10) \o <<DigitChar(n % 10)>>

\* n copies of the character c
Rep(c, n) == [i \in 1..n |-> c]

(***************************************************************************)
(* Constants of routines_handler.py                                        *)
(***************************************************************************)
MAX_TITLE_LENGTH == 100
MAX_STEPS == 20
MAX_STEP_LENGTH == 200

S_MON == <<"M", "O", "N">>
S_TUE == <<"T", "U", "E">>
S_WED == <<"W", "E", "D">>
S_THU == <<"T", "H", "U">>
S_FRI == <<"F", "R", "I">>
S_SAT == <<"S", "A", "T">>
S_SUN == <<"S", "U", "N">>
VALID_WEEKDAYS == <<S_MON, S_TUE, S_WED, S_THU, S_FRI, S_SAT, S_SUN>>

S_daily == <<"d", "a", "i", "l", "y">>
S_weekly == <<"w", "e", "e", "k", "l", "y">>
S_cron == <<"c", "r", "o", "n">>
S_0700 == <<"0", "7", ":", "0", "0">>
S_My_Routine == <<"M", "y", " ", "R", "o", "u", "t", "i", "n", "e">>
S_America_New_York ==
  <<"A", "m", "e", "r", "i", "c", "a", "/", "N", "e", "w", "_", "Y", "o", "r", "k">>
S_sheglow_dash == <<"s", "h", "e", "g", "l", "o", "w", "-">>

\* "x in VALID_WEEKDAYS" for an arbitrary value x
InValidWeekdays(x) == \E i \in 1..Len(VALID_WEEKDAYS) : x = Str(VALID_WEEKDAYS[i])

(***************************************************************************)
(* validate_time_format                                                    *)
(***************************************************************************)
\* re.match(r'^([0-1]?[0-9]|2[0-3]):([0-5][0-9])$', s): "$" also matches just
\* before a newline that ends the string.
TimeCore(s) == IF Len(s) > 0 /\ s[Len(s)] = "\n" THEN SubSeq(s, 1, Len(s) - 1) ELSE s

TimeMatches(s) ==
  LET c == TimeCore(s) IN
  \/ /\ Len(c) = 4
     /\ c[1] \in Digits
     /\ c[2] = ":"
     /\ c[3] \in {"0", "1", "2", "3", "4", "5"}
     /\ c[4] \in Digits
  \/ /\ Len(c) = 5
     /\ \/ c[1] \in {"0", "1"} /\ c[2] \in Digits
        \/ c[1] = "2" /\ c[2] \in {"0", "1", "2", "3"}
     /\ c[3] = ":"
     /\ c[4] \in {"0", "1", "2", "3", "4", "5"}
     /\ c[5] \in Digits

\* The result of validate_time_format(x): ok with (hh, mm), or the ValueError
\* raised, msg being the text the validator reports for it (line 127).
validate_time_format(x) ==
  IF ~IsStr(x) THEN [ok |-> FALSE, msg |-> "when.time: Time must be a string"]
  ELSE IF ~TimeMatches(x.v)
       THEN [ok |-> FALSE, msg |-> "when.time: Time must be in HH:MM format (00:00-23:59)"]
       ELSE LET c == TimeCore(x.v)
                n == Len(c)
            IN [ok |-> TRUE,
                hh |-> IntOf(SubSeq(c, 1, n - 3)),
                mm |-> IntOf(SubSeq(c, n - 1, n))]

(***************************************************************************)
(* validate_routine_data                                                   *)
(***************************************************************************)
\* An error string: the f-string's template and the values substituted in it.
Err(msg, args) == [msg |-> msg, args |-> args]

\* The validator's running state: errors, cleaned_data, and whether an
\* exception escaped (raised).
Acc0 == [raised |-> FALSE, errors |-> <<>>, cleaned |-> EmptyDict]
AddErr(acc, e) == [acc EXCEPT !.errors = Append(@, e)]
Clean(acc, k, x) == [acc EXCEPT !.cleaned = Put(@, k, x)]
Raise(acc) == [acc EXCEPT !.raised = TRUE]

\* lines 62-71
ValidateTitle(data, is_update, acc) ==
  LET title == Get(data, "title") IN
  IF is_update /\ IsNone(title) THEN acc
  ELSE IF ~Truthy(title) \/ ~IsStr(title) \/ Len(Strip(title.v)) = 0
       THEN IF ~is_update
            THEN AddErr(acc, Err("title is required and must be a non-empty string", <<>>))
            ELSE acc
       ELSE IF Len(Strip(title.v)) > MAX_TITLE_LENGTH
            THEN AddErr(acc, Err("title must be {} characters or less", <<IntStr(MAX_TITLE_LENGTH)>>))
            ELSE Clean(acc, "title", Str(Strip(title.v)))

\* lines 85-93: the loop over the steps; st = [errors, cleaned_steps]
RECURSIVE StepLoop(_, _, _)
StepLoop(steps, i, st) ==
  IF i > Len(steps) THEN st
  ELSE LET step == steps[i] IN
       StepLoop(steps, i + 1,
         IF ~IsStr(step)
         THEN [st EXCEPT !.errors = Append(@, Err("Step {} must be a string", <<IntStr(i)>>))]
         ELSE IF Len(Strip(step.v)) = 0
              THEN [st EXCEPT !.errors = Append(@, Err("Step {} cannot be empty", <<IntStr(i)>>))]
              ELSE IF Len(Strip(step.v)) > MAX_STEP_LENGTH
                   THEN [st EXCEPT !.errors =
                           Append(@, Err("Step {} must be {} characters or less",
                                         <<IntStr(i), IntStr(MAX_STEP_LENGTH)>>))]
                   ELSE [st EXCEPT !.cleaned_steps = Append(@, Str(Strip(step.v)))])

\* lines 73-96
ValidateSteps(data, is_update, acc) ==
  LET steps == Get(data, "steps") IN
  IF is_update /\ IsNone(steps) THEN acc
  ELSE IF IsNone(steps)
       THEN IF ~is_update THEN Clean(acc, "steps", List(<<>>)) ELSE acc
       ELSE IF ~IsList(steps) THEN AddErr(acc, Err("steps must be an array", <<>>))
       ELSE IF Len(steps.v) > MAX_STEPS
            THEN AddErr(acc, Err("Maximum {} steps allowed", <<IntStr(MAX_STEPS)>>))
            ELSE LET st == StepLoop(steps.v, 1,
                                    [errors |-> acc.errors, cleaned_steps |-> <<>>])
                     acc1 == [acc EXCEPT !.errors = st.errors]
                 IN IF Len(acc1.errors) = 0
                    THEN Clean(acc1, "steps", List(st.cleaned_steps))
                    ELSE acc1

\* lines 98-104
ValidateTimezone(data, acc) ==
  LET timezone == Get(data, "timezone") IN
  IF IsNone(timezone) THEN acc
  ELSE IF ~IsStr(timezone) \/ Len(Strip(timezone.v)) = 0
       THEN AddErr(acc, Err("timezone must be a non-empty string", <<>>))
       ELSE Clean(acc, "timezone", Str(Strip(timezone.v)))

\* lines 121-127: st = [raised, errors, cleaned_when]
WhenTime(when, schedule_type, st) ==
  IF schedule_type \in {Str(S_daily), Str(S_weekly)}
  THEN LET time_str == GetD(when, "time", Str(S_0700))
           r == validate_time_format(time_str)
       IN IF r.ok
          THEN [st EXCEPT !.cleaned_when = Put(@, "time", time_str)]
          ELSE [st EXCEPT !.errors = Append(@, Err(r.msg, <<>>))]
  ELSE st

\* [d for d in days if d not in VALID_WEEKDAYS]
InvalidDays(days) == SelectSeq(days, LAMBDA d : ~InValidWeekdays(d))

\* lines 129-138; ', '.join(invalid_days) raises TypeError on a non-str element
WhenDays(when, schedule_type, st) ==
  IF schedule_type = Str(S_weekly)
  THEN LET days == GetD(when, "days", List(<<Str(S_MON)>>)) IN
       IF ~IsList(days) \/ ~Truthy(days)
       THEN [st EXCEPT !.errors =
               Append(@, Err("when.days must be a non-empty array for weekly schedules", <<>>))]
       ELSE LET invalid_days == InvalidDays(days.v) IN
            IF Len(invalid_days) > 0
            THEN IF \E i \in 1..Len(invalid_days) : ~IsStr(invalid_days[i])
                 THEN [st EXCEPT !.raised = TRUE]
                 ELSE [st EXCEPT !.errors =
                         Append(@, Err("Invalid days: {}. Valid options: {}",
                                       <<Join(<<",", " ">>,
                                              [i \in 1..Len(invalid_days) |-> invalid_days[i].v]),
                                         Join(<<",", " ">>, VALID_WEEKDAYS)>>))]
            ELSE [st EXCEPT !.cleaned_when = Put(@, "days", days)]
  ELSE st

\* lines 140-145
WhenExpression(when, schedule_type, st) ==
  IF schedule_type = Str(S_cron)
  THEN LET expression == Get(when, "expression") IN
       IF ~Truthy(expression) \/ ~IsStr(expression)
       THEN [st EXCEPT !.errors =
               Append(@, Err("when.expression is required for cron schedules", <<>>))]
       ELSE [st EXCEPT !.cleaned_when = Put(@, "expression", Str(Strip(expression.v)))]
  ELSE st

\* Mutant of ScheduleTypes: 'hourly' is taken for a schedule type.
ScheduleTypesWithHourly ==
  {Str(S_daily), Str(S_weekly), Str(S_cron), Str(<<"h", "o", "u", "r", "l", "y">>)}

\* line 116: ['daily', 'weekly', 'cron']
ScheduleTypes == {Str(S_daily), Str(S_weekly), Str(S_cron)}

DefaultWhen == Dict(("type" :> Str(S_daily)) @@ ("time" :> Str(S_0700)))

\* lines 106-148
ValidateWhen(data, is_update, acc) ==
  LET when == Get(data, "when") IN
  IF is_update /\ IsNone(when) THEN acc
  ELSE IF IsNone(when)
       THEN IF ~is_update THEN Clean(acc, "when", DefaultWhen) ELSE acc
       ELSE IF ~IsDict(when) THEN AddErr(acc, Err("when must be an object", <<>>))
       ELSE LET schedule_type == Get(when, "type") IN
            IF schedule_type \notin ScheduleTypes
            THEN AddErr(acc, Err("when.type must be 'daily', 'weekly', or 'cron'", <<>>))
            ELSE LET st0 == [raised |-> FALSE, errors |-> acc.errors,
                             cleaned_when |-> Dict("type" :> schedule_type)]
                     st1 == WhenTime(when, schedule_type, st0)
                     st2 == WhenDays(when, schedule_type, st1)
                     st3 == IF st2.raised THEN st2
                            ELSE WhenExpression(when, schedule_type, st2)
                     acc1 == [acc EXCEPT !.errors = st3.errors]
                 IN IF st3.raised THEN Raise(acc1)
                    ELSE IF Len(acc1.errors) = 0
                         THEN Clean(acc1, "when", st3.cleaned_when)
                         ELSE acc1

\* validate_routine_data(data, is_update): [raised, errors, cleaned].  data.get
\* raises AttributeError when the body is not a JSON object.
validate_routine_data(data, is_update) ==
  IF ~IsDict(data) THEN Raise(Acc0)
  ELSE ValidateWhen(data, is_update,
         ValidateTimezone(data,
           ValidateSteps(data, is_update,
             ValidateTitle(data, is_update, Acc0))))

(***************************************************************************)
(* create_schedule: name, expression and payload of the trigger            *)
(***************************************************************************)
NamePrefixLen == 8

\* line 156: f"sheglow-{user_id[:8]}-{routine['routineId'][:8]}"
ScheduleName(user_id, routine_id) ==
  S_sheglow_dash \o Prefix(user_id, NamePrefixLen) \o <<"-">> \o Prefix(routine_id, NamePrefixLen)

\* Mutant of JoinDays: the days are joined last to first.
JoinDaysReversed(days) ==
  [ok |-> TRUE,
   s |-> Join(<<",">>, [i \in 1..Len(days.v) |-> days.v[Len(days.v) + 1 - i].v])]

\* ','.join(days): a list of str is joined, a str is joined character by
\* character, anything else raises TypeError.
JoinDays(days) ==
  IF IsList(days) /\ \A i \in 1..Len(days.v) : IsStr(days.v[i])
  THEN [ok |-> TRUE, s |-> Join(<<",">>, [i \in 1..Len(days.v) |-> days.v[i].v])]
  ELSE IF IsStr(days)
       THEN [ok |-> TRUE, s |-> Join(<<",">>, [i \in 1..Len(days.v) |-> <<days.v[i]>>])]
       ELSE [ok |-> FALSE, s |-> <<>>]

\* Mutant of CronTime: hour first.
CronTimeHourFirst(hh, mm) == IntStr(hh) \o <<" ">> \o IntStr(mm)

\* lines 162 and 167: f"cron({mm} {hh} ..." renders the two ints unpadded
CronTime(hh, mm) == IntStr(mm) \o <<" ">> \o IntStr(hh)

\* lines 157-173: [ok, expr]; ok = FALSE when the function raises before the
\* scheduler is called (ValueError of validate_time_format, TypeError of
\* join, or 'Unsupported or invalid schedule configuration').
ScheduleExpression(when) ==
  LET type == Get(when, "type")
      failed == [ok |-> FALSE, expr |-> None]
  IN IF type = Str(S_daily)
     THEN LET r == validate_time_format(GetD(when, "time", Str(S_0700))) IN
          IF ~r.ok THEN failed
          ELSE [ok |-> TRUE,
                expr |-> Str(<<"c", "r", "o", "n", "(">> \o CronTime(r.hh, r.mm)
                             \o <<" ", "*", " ", "*", " ", "?", " ", "*", ")">>)]
     ELSE IF type = Str(S_weekly)
     THEN LET r == validate_time_format(GetD(when, "time", Str(S_0700)))
              days == JoinDays(GetD(when, "days", List(<<Str(S_MON)>>)))
          IN IF ~r.ok \/ ~days.ok THEN failed
             ELSE [ok |-> TRUE,
                   expr |-> Str(<<"c", "r", "o", "n", "(">> \o CronTime(r.hh, r.mm)
                                \o <<" ", "?", " ", "*", " ">> \o days.s
                                \o <<" ", "*", ")">>)]
     ELSE IF type = Str(S_cron)
     THEN LET e == Get(when, "expression") IN
          IF Truthy(e) THEN [ok |-> TRUE, expr |-> e] ELSE failed
     ELSE failed

\* lines 155-197: what create_schedule hands to scheduler.create_schedule, or
\* ok = FALSE when it raises before the call.
CreateScheduleRequest(user_id, routine) ==
  LET e == ScheduleExpression(GetD(routine, "when", EmptyDict)) IN
  [ok |-> e.ok,
   name |-> ScheduleName(user_id.v, routine.v["routineId"].v),
   trigger |-> [expr |-> e.expr,
                tz |-> GetD(routine, "timezone", Str(S_America_New_York)),
                userId |-> user_id,
                routineId |-> routine.v["routineId"],
                title |-> Get(routine, "title"),
                steps |-> GetD(routine, "steps", List(<<>>))]]

\* Mutant of CreateScheduleRaises: failures are logged and swallowed, as in
\* delete_schedule.
CreateScheduleSwallows(outcome) == FALSE

\* lines 202-207: every failure of scheduler.create_schedule is re-raised.
CreateScheduleRaises(outcome) == outcome # "ok"

\* Mutant of DeleteScheduleRaises: ResourceNotFoundException is not caught.
DeleteScheduleRaisesNotFound(outcome) == outcome \in {"error", "not_found"}

\* lines 209-218: delete_schedule swallows ResourceNotFoundException and
\* ClientError; it has no other except clause, so a failure of the call that
\* is not a ClientError leaves delete_schedule as an exception.
DeleteScheduleRaises(outcome) == outcome = "error"

(***************************************************************************)
(* Bounds and the inputs drawn by the requests                             *)
(***************************************************************************)
\* Requests handled in one behaviour.
MaxRequests == 3

\* Lambda invocations; the sequential specification uses the first only.
Procs == {1, 2}
SeqProcs == {1}

U1 == Rep("a", 8) \o <<"-", "1">>
U2 == Rep("b", 8) \o <<"-", "2">>
\* The 'sub' claim of the request: a user id, or None (no claim).
Users == {Str(U1), Str(U2), None}

\* Values uuid.uuid4() may return; R1 and R2 agree on their first 8 characters.
R1 == Rep("c", 8) \o <<"-", "1">>
R2 == Rep("c", 8) \o <<"-", "2">>
R3 == Rep("d", 8) \o <<"-", "3">>
RoutineIds == {R1, R2, R3}
\* pathParameters.routineId: an id, or None (missing).
PathIds == {Str(R1), Str(R2), Str(R3), None}

S_UTC == <<"U", "T", "C">>
S_0805 == <<"0", "8", ":", "0", "5">>
S_730 == <<"7", ":", "3", "0">>
S_rate == <<"r", "a", "t", "e", "(", "1", " ", "d", "a", "y", ")">>

\* A request body that json.loads rejects.
InvalidJson == [t |-> "invalid"]

WhenDaily(time) == Dict(("type" :> Str(S_daily)) @@ ("time" :> Str(time)))
WhenWeekly(time, days) ==
  Dict(("type" :> Str(S_weekly)) @@ ("time" :> Str(time)) @@ ("days" :> List(days)))
WhenCron(e) == Dict(("type" :> Str(S_cron)) @@ ("expression" :> Str(e)))

HB_title == Dict("title" :> Str(<<" ", "A", " ">>))
HB_full == Dict(("title" :> Str(<<"B">>)) @@ ("steps" :> List(<<Str(<<"x">>)>>))
                @@ ("timezone" :> Str(S_UTC))
                @@ ("when" :> WhenWeekly(S_730, <<Str(S_MON), Str(S_FRI)>>)))
HB_blank_cron == Dict(("title" :> Str(<<"C">>)) @@ ("when" :> WhenCron(<<" ", " ">>)))
HB_when == Dict("when" :> WhenDaily(S_0805))
HB_empty_title == Dict("title" :> Str(<<>>))
HB_bad_days == Dict(("title" :> Str(<<"A">>))
                    @@ ("when" :> WhenWeekly(S_0700, <<Num(1)>>)))
HB_steps_tz == Dict(("steps" :> List(<<Str(<<" ", "y">>)>>))
                    @@ ("timezone" :> Str(<<" ", "U", "T", "C">>)))
HB_bad_tz == Dict("timezone" :> Str(<<" ">>))

\* A payload that names another owner and another id.
HB_identity == Dict(("title" :> Str(<<"D">>)) @@ ("userId" :> Str(U2))
                    @@ ("routineId" :> Str(R3)))

\* A payload with an empty title and a step.
HB_empty_title_steps == Dict(("title" :> Str(<<>>)) @@ ("steps" :> List(<<Str(<<"z">>)>>)))

HandlerBodies ==
  {HB_title, HB_full, HB_blank_cron, HB_when, HB_empty_title, HB_bad_days,
   HB_steps_tz, HB_bad_tz, InvalidJson}
\* The payloads of updates only.
UpdateBodies == {HB_identity, HB_empty_title_steps}

(***************************************************************************)
(* State                                                                   *)
(***************************************************************************)
VARIABLES
  store,    \* ROUTINES_TABLE: <<userId, routineId>> -> item
  sched,    \* the scheduler: trigger name -> trigger
  req,      \* per invocation: position, locals, calls made, response status
  issued,   \* the routineIds uuid4 has returned
  nreq,     \* requests received
  vcase,    \* the validator / compiler taken alone: input, phase, result
  ics       \* the exporter taken alone: batch or text, phase, lines, document

vars == <<store, sched, req, issued, nreq, vcase, ics>>

IdleReq ==
  [pc |-> "idle", method |-> "", user |-> None, rid |-> None, body |-> None,
   cleaned |-> EmptyDict, errors |-> <<>>, routine |-> None, old |-> None,
   schedule_name |-> None, step |-> 0, calls |-> <<>>, status |-> 0]

NoCase == [phase |-> "none"]
\* No export is under way.
NoExport == [phase |-> "none"]

\* Mutant of Key: the record is looked up by its routineId alone.
KeyByRoutineId(user_id, routine_id) == <<U1, routine_id.v>>

\* lines 321, 364 and 373: Key={'userId': user_id, 'routineId': routine_id}
Key(user_id, routine_id) == <<user_id.v, routine_id.v>>
KeyText(k) == k[1] \o <<"/">> \o k[2]

\* A call of an external service, as logged in req[p].calls.
Call(op, name, outcome) == [op |-> op, name |-> name, outcome |-> outcome]
Log(r, op, name, outcome) == [r EXCEPT !.calls = Append(@, Call(op, name, outcome))]
Done(r, status) == [r EXCEPT !.pc = "done", !.status = status]

\* Outcomes of the store's calls: each may fail with a ClientError.
StoreOutcomes == {"ok", "fail"}
\* scheduler.create_schedule is create-or-fail on the name, and may fail anyway.
CreateOutcomes(name) == IF name \in DOMAIN sched THEN {"fail"} ELSE {"ok", "fail"}
\* scheduler.delete_schedule: ResourceNotFoundException when the name is not
\* registered; any other ClientError is "fail"; "error" is a failure that the
\* client raises as something other than a ClientError (botocore's connection
\* and timeout errors derive from BotoCoreError).
DeleteOutcomes(name) ==
  IF name \in DOMAIN sched THEN {"ok", "fail", "error"}
  ELSE {"not_found", "fail", "error"}

Register(name, trigger) ==
  [n \in DOMAIN sched \cup {name} |-> IF n = name THEN trigger ELSE sched[n]]
Unregister(name) == [n \in DOMAIN sched \ {name} |-> sched[n]]
StorePut(item) ==
  LET k == Key(item.v["userId"], item.v["routineId"]) IN
  [q \in DOMAIN store \cup {k} |-> IF q = k THEN item ELSE store[q]]
StoreDelete(k) == [q \in DOMAIN store \ {k} |-> store[q]]
StoreGet(k) == IF k \in DOMAIN store THEN store[k] ELSE None

Init ==
  /\ store = <<>>
  /\ sched = <<>>
  /\ req = [p \in Procs |-> IdleReq]
  /\ issued = {}
  /\ nreq = 0
  /\ vcase = NoCase
  /\ ics = NoExport

\* No invocation is in progress.
Quiescent == \A p \in Procs : req[p].pc = "idle"

\* lines 224-256: 401 without a user id, 400 on a body that is not JSON; 0 to go on.
Prelude(user, body) ==
  IF ~Truthy(user) THEN 401
  ELSE IF body = InvalidJson THEN 400
  ELSE 0

Begin(p, r) ==
  /\ req[p].pc = "idle"
  /\ nreq < MaxRequests
  /\ nreq' = nreq + 1
  /\ req' = [req EXCEPT ![p] = r]

(***************************************************************************)
(* POST: create a routine (lines 259-297)                                  *)
(***************************************************************************)
\* Mutant of PostSteps: the record is saved before the schedule is created.
PostStepsPutFirst == <<"put_item", "create_schedule">>

\* lines 282-287: the external calls of a creation, in the order made.
PostSteps == <<"create_schedule", "put_item">>

\* lines 272-280
NewRoutine(user, uuid, cleaned) ==
  Dict(("userId" :> user) @@ ("routineId" :> Str(uuid))
       @@ ("title" :> GetD(cleaned, "title", Str(S_My_Routine)))
       @@ ("steps" :> GetD(cleaned, "steps", List(<<>>)))
       @@ ("timezone" :> GetD(cleaned, "timezone", Str(S_America_New_York)))
       @@ ("when" :> GetD(cleaned, "when", DefaultWhen)))

\* lines 292-297: the except branch deletes the schedule if create_schedule
\* had returned, then answers 500.
PostExcept(r) ==
  IF r.schedule_name # None THEN [r EXCEPT !.pc = "post_cleanup"] ELSE Done(r, 500)

\* after a call that returned: the next call, or the 201 of line 290
PostAdvance(r) ==
  IF r.step = Len(PostSteps) THEN Done(r, 201) ELSE [r EXCEPT !.step = @ + 1]

PostBegin(p, user, body) ==
  /\ UNCHANGED <<store, sched, vcase, ics>>
  /\ LET r0 == [IdleReq EXCEPT !.method = "POST", !.user = user, !.body = body]
         pre == Prelude(user, body)
         v == validate_routine_data(body, FALSE)
     IN IF pre # 0 THEN Begin(p, Done(r0, pre)) /\ UNCHANGED issued
        ELSE IF v.raised THEN Begin(p, Done(r0, 500)) /\ UNCHANGED issued
        ELSE IF Len(v.errors) > 0
             THEN Begin(p, Done([r0 EXCEPT !.errors = v.errors], 400)) /\ UNCHANGED issued
             ELSE \E uuid \in RoutineIds \ issued :
                    /\ issued' = issued \cup {uuid}
                    /\ Begin(p, [r0 EXCEPT !.pc = "post", !.step = 1,
                                           !.cleaned = v.cleaned,
                                           !.routine = NewRoutine(user, uuid, v.cleaned)])

PostCreateSchedule(p) ==
  /\ req[p].pc = "post"
  /\ PostSteps[req[p].step] = "create_schedule"
  /\ UNCHANGED <<store, issued, nreq, vcase, ics>>
  /\ LET r == req[p]
         cs == CreateScheduleRequest(r.user, r.routine)
     IN IF ~cs.ok
        THEN /\ req' = [req EXCEPT ![p] = PostExcept(r)]
             /\ UNCHANGED sched
        ELSE \E outcome \in CreateOutcomes(cs.name) :
               /\ sched' = IF outcome = "ok" THEN Register(cs.name, cs.trigger) ELSE sched
               /\ LET r1 == Log(r, "create_schedule", cs.name, outcome) IN
                  req' = [req EXCEPT ![p] =
                            IF CreateScheduleRaises(outcome) THEN PostExcept(r1)
                            ELSE PostAdvance([r1 EXCEPT
                                   !.schedule_name = Str(cs.name),
                                   !.routine = Put(@, "scheduleName", Str(cs.name))])]

PostPutItem(p) ==
  /\ req[p].pc = "post"
  /\ PostSteps[req[p].step] = "put_item"
  /\ UNCHANGED <<sched, issued, nreq, vcase, ics>>
  /\ LET r == req[p]
         k == Key(r.routine.v["userId"], r.routine.v["routineId"])
     IN \E outcome \in StoreOutcomes :
          /\ store' = IF outcome = "ok" THEN StorePut(r.routine) ELSE store
          /\ LET r1 == Log(r, "put_item", KeyText(k), outcome) IN
             req' = [req EXCEPT ![p] =
                       IF outcome = "ok" THEN PostAdvance(r1) ELSE PostExcept(r1)]

\* line 296: delete_schedule(schedule_name) in the except branch
PostCleanup(p) ==
  /\ req[p].pc = "post_cleanup"
  /\ UNCHANGED <<store, issued, nreq, vcase, ics>>
  /\ LET r == req[p]
         name == r.schedule_name.v
     IN \E outcome \in DeleteOutcomes(name) :
          /\ sched' = IF outcome = "ok" THEN Unregister(name) ELSE sched
          /\ req' = [req EXCEPT ![p] = Done(Log(r, "delete_schedule", name, outcome), 500)]

(***************************************************************************)
(* PUT: update a routine (lines 300-350)                                   *)
(***************************************************************************)
\* Mutant of PutTouchesSchedule: every update recreates the schedule.
PutAlwaysTouchesSchedule(cleaned) == TRUE

\* line 333: the schedule is touched when the cleaned data carries one.
PutTouchesSchedule(cleaned) == Has(cleaned, "when")

\* lines 328-330
RECURSIVE ApplyFields(_, _, _)
ApplyFields(current, cleaned, fields) ==
  IF Len(fields) = 0 THEN current
  ELSE ApplyFields(IF Has(cleaned, Head(fields))
                   THEN Put(current, Head(fields), cleaned.v[Head(fields)])
                   ELSE current,
                   cleaned, Tail(fields))

PutBegin(p, user, rid, body) ==
  /\ UNCHANGED <<store, sched, issued, vcase, ics>>
  /\ LET r0 == [IdleReq EXCEPT !.method = "PUT", !.user = user, !.rid = rid, !.body = body]
         pre == Prelude(user, body)
         v == validate_routine_data(body, TRUE)
     IN Begin(p, IF pre # 0 THEN Done(r0, pre)
                 ELSE IF ~Truthy(rid) THEN Done(r0, 400)
                 ELSE IF v.raised THEN Done(r0, 500)
                 ELSE IF Len(v.errors) > 0 THEN Done([r0 EXCEPT !.errors = v.errors], 400)
                 ELSE [r0 EXCEPT !.pc = "put_get_item", !.cleaned = v.cleaned])

PutGetItem(p) ==
  /\ req[p].pc = "put_get_item"
  /\ UNCHANGED <<store, sched, issued, nreq, vcase, ics>>
  /\ LET r == req[p]
         k == Key(r.user, r.rid)
     IN \E outcome \in StoreOutcomes :
          LET r1 == Log(r, "get_item", KeyText(k), outcome)
              current == StoreGet(k)
          IN req' = [req EXCEPT ![p] =
               IF outcome # "ok" THEN Done(r1, 500)
               ELSE IF ~Truthy(current) THEN Done(r1, 404)
               ELSE [r1 EXCEPT
                       !.old = current,
                       !.routine = ApplyFields(current, r.cleaned,
                                               <<"title", "steps", "timezone">>),
                       !.pc = IF PutTouchesSchedule(r.cleaned)
                              THEN IF Truthy(Get(current, "scheduleName"))
                                   THEN "put_delete_schedule"
                                   ELSE "put_create_schedule"
                              ELSE "put_put_item"]]

\* lines 335-336
PutDeleteSchedule(p) ==
  /\ req[p].pc = "put_delete_schedule"
  /\ UNCHANGED <<store, issued, nreq, vcase, ics>>
  /\ LET r == req[p]
         name == r.routine.v["scheduleName"].v
     IN \E outcome \in DeleteOutcomes(name) :
          /\ sched' = IF outcome = "ok" THEN Unregister(name) ELSE sched
          /\ LET r1 == Log(r, "delete_schedule", name, outcome) IN
             req' = [req EXCEPT ![p] =
                       IF DeleteScheduleRaises(outcome) THEN Done(r1, 500)
                       ELSE [r1 EXCEPT !.pc = "put_create_schedule"]]

\* lines 339-340; cleaned_data['when'] raises KeyError when there is none
PutCreateSchedule(p) ==
  /\ req[p].pc = "put_create_schedule"
  /\ UNCHANGED <<store, issued, nreq, vcase, ics>>
  /\ LET r == req[p] IN
     IF ~Has(r.cleaned, "when")
     THEN req' = [req EXCEPT ![p] = Done(r, 500)] /\ UNCHANGED sched
     ELSE LET current == Put(r.routine, "when", r.cleaned.v["when"])
              cs == CreateScheduleRequest(r.user, current)
              r0 == [r EXCEPT !.routine = current]
          IN IF ~cs.ok
             THEN req' = [req EXCEPT ![p] = Done(r0, 500)] /\ UNCHANGED sched
             ELSE \E outcome \in CreateOutcomes(cs.name) :
                    /\ sched' = IF outcome = "ok" THEN Register(cs.name, cs.trigger)
                                ELSE sched
                    /\ LET r1 == Log(r0, "create_schedule", cs.name, outcome) IN
                       req' = [req EXCEPT ![p] =
                                 IF CreateScheduleRaises(outcome) THEN Done(r1, 500)
                                 ELSE [r1 EXCEPT
                                         !.routine = Put(@, "scheduleName", Str(cs.name)),
                                         !.pc = "put_put_item"]]

\* lines 343-346
PutPutItem(p) ==
  /\ req[p].pc = "put_put_item"
  /\ UNCHANGED <<sched, issued, nreq, vcase, ics>>
  /\ LET r == req[p]
         k == Key(r.routine.v["userId"], r.routine.v["routineId"])
     IN \E outcome \in StoreOutcomes :
          /\ store' = IF outcome = "ok" THEN StorePut(r.routine) ELSE store
          /\ req' = [req EXCEPT ![p] =
                       Done(Log(r, "put_item", KeyText(k), outcome),
                            IF outcome = "ok" THEN 200 ELSE 500)]

(***************************************************************************)
(* DELETE: delete a routine (lines 353-381)                                *)
(***************************************************************************)
DeleteBegin(p, user, rid, body) ==
  /\ UNCHANGED <<store, sched, issued, vcase, ics>>
  /\ LET r0 == [IdleReq EXCEPT !.method = "DELETE", !.user = user, !.rid = rid,
                               !.body = body]
         pre == Prelude(user, body)
     IN Begin(p, IF pre # 0 THEN Done(r0, pre)
                 ELSE IF ~Truthy(rid) THEN Done(r0, 400)
                 ELSE [r0 EXCEPT !.pc = "del_get_item"])

\* lines 363-369
DelGetItem(p) ==
  /\ req[p].pc = "del_get_item"
  /\ UNCHANGED <<store, sched, issued, nreq, vcase, ics>>
  /\ LET r == req[p]
         k == Key(r.user, r.rid)
     IN \E outcome \in StoreOutcomes :
          LET r1 == Log(r, "get_item", KeyText(k), outcome)
              item == StoreGet(k)
          IN req' = [req EXCEPT ![p] =
               IF outcome # "ok" THEN Done(r1, 500)
               ELSE [r1 EXCEPT
                       !.old = item,
                       !.pc = IF Truthy(item) /\ Truthy(Get(item, "scheduleName"))
                              THEN "del_delete_schedule"
                              ELSE "del_delete_item"]]

DelDeleteSchedule(p) ==
  /\ req[p].pc = "del_delete_schedule"
  /\ UNCHANGED <<store, issued, nreq, vcase, ics>>
  /\ LET r == req[p]
         name == r.old.v["scheduleName"].v
     IN \E outcome \in DeleteOutcomes(name) :
          /\ sched' = IF outcome = "ok" THEN Unregister(name) ELSE sched
          /\ LET r1 == Log(r, "delete_schedule", name, outcome) IN
             req' = [req EXCEPT ![p] =
                       IF DeleteScheduleRaises(outcome) THEN Done(r1, 500)
                       ELSE [r1 EXCEPT !.pc = "del_delete_item"]]

\* lines 372-377
DelDeleteItem(p) ==
  /\ req[p].pc = "del_delete_item"
  /\ UNCHANGED <<sched, issued, nreq, vcase, ics>>
  /\ LET r == req[p]
         k == Key(r.user, r.rid)
     IN \E outcome \in StoreOutcomes :
          /\ store' = IF outcome = "ok" THEN StoreDelete(k) ELSE store
          /\ req' = [req EXCEPT ![p] =
                       Done(Log(r, "delete_item", KeyText(k), outcome),
                            IF outcome = "ok" THEN 204 ELSE 500)]

\* The handler returns its response; the invocation and its locals end.
Return(p) ==
  /\ req[p].pc = "done"
  /\ req' = [req EXCEPT ![p] = IdleReq]
  /\ UNCHANGED <<store, sched, issued, nreq, vcase, ics>>

(***************************************************************************)
(* The handler, one request at a time                                      *)
(***************************************************************************)
Step(p) ==
  \/ PostCreateSchedule(p)
  \/ PostPutItem(p)
  \/ PostCleanup(p)
  \/ PutGetItem(p)
  \/ PutDeleteSchedule(p)
  \/ PutCreateSchedule(p)
  \/ PutPutItem(p)
  \/ DelGetItem(p)
  \/ DelDeleteSchedule(p)
  \/ DelDeleteItem(p)
  \/ Return(p)

\* A request arrives: its method, user, path parameter and body.
Receive(p, users, bodies, updates) ==
  \/ \E user \in users, body \in bodies : PostBegin(p, user, body)
  \/ \E user \in users, rid \in PathIds, body \in updates : PutBegin(p, user, rid, body)
  \/ \E user \in users, rid \in PathIds : DeleteBegin(p, user, rid, EmptyDict)

Next ==
  \E p \in SeqProcs :
    (Quiescent /\ Receive(p, Users, HandlerBodies, HandlerBodies \cup UpdateBodies))
    \/ Step(p)

Spec == Init /\ [][Next]_vars

(***************************************************************************)
(* The handler, invocations running concurrently: each Lambda invocation   *)
(* runs the handler on its own, and the calls of two invocations to the    *)
(* store and the scheduler interleave                                      *)
(***************************************************************************)
\* The payloads of the concurrent requests: a creation, and updates with two
\* different schedules and with none.
ConcurrentCreates == {HB_full}
ConcurrentUpdates == {HB_when, HB_full, HB_steps_tz}

NextC ==
  \E p \in Procs :
    Receive(p, {Str(U1)}, ConcurrentCreates, ConcurrentUpdates) \/ Step(p)

SpecC == Init /\ [][NextC]_vars

(***************************************************************************)
(* The validator and the compiler taken alone, over a range of bodies      *)
(***************************************************************************)
Absent == [t |-> "absent"]

\* A JSON object holding the fields that are not Absent.
Body(title, steps, timezone, when) ==
  LET f == ("title" :> title) @@ ("steps" :> steps) @@ ("timezone" :> timezone)
           @@ ("when" :> when)
  IN Dict([k \in {q \in DOMAIN f : f[q] # Absent} |-> f[k]])

When(type, time, days, expression) ==
  LET f == ("type" :> type) @@ ("time" :> time) @@ ("days" :> days)
           @@ ("expression" :> expression)
  IN Dict([k \in {q \in DOMAIN f : f[q] # Absent} |-> f[k]])

S_FUNDAY == <<"F", "U", "N", "D", "A", "Y">>
S_XDAY == <<"X", "D", "A", "Y">>
S_hourly == <<"h", "o", "u", "r", "l", "y">>

TitleInputs ==
  {Absent, None, Str(<<"A">>), Str(<<" ", "A", "b", " ">>), Str(<<>>), Str(<<" ", " ">>),
   Num(5), Str(Rep("t", MAX_TITLE_LENGTH)), Str(Rep("t", MAX_TITLE_LENGTH + 1))}

StepsInputs ==
  {Absent, List(<<>>), List(<<Str(<<"x">>), Str(<<" ", "y", " ">>)>>),
   List(<<Str(<<"x">>), Num(2), Str(<<" ">>)>>), Str(<<"x">>),
   List(Rep(Str(<<"s">>), MAX_STEPS + 1)),
   List(<<Str(Rep("s", MAX_STEP_LENGTH + 1))>>)}

TimezoneInputs == {Absent, Str(S_UTC), Str(<<" ">>), Num(1)}

TimeInputs ==
  {Absent, None, Str(S_0700), Str(S_730), Str(<<"2", "3", ":", "5", "9">>),
   Str(<<"2", "4", ":", "0", "0">>), Str(<<"0", "7", ":", "6", "0">>),
   Str(<<"0", "7", ":", "0", "0", "\n">>), Str(<<"7", "a", "m">>), Num(7),
   Str(<<"0", ":", "0", "5">>), Str(<<"0", "0", ":", "0", "0">>),
   Str(<<"1", "9", ":", "0", "9">>), Str(<<"9", ":", "5">>)}

DaysInputs ==
  {Absent, List(<<>>), Str(S_MON), List(<<Str(S_MON), Str(S_WED), Str(S_FRI)>>),
   List(<<Str(S_SUN), Str(S_SUN)>>), List(<<Str(S_FUNDAY)>>),
   List(<<Str(S_MON), Str(S_FUNDAY), Str(S_XDAY)>>), List(<<Num(1)>>),
   List(<<Str(S_MON), None>>), List(<<Str(S_FUNDAY), Num(1)>>)}

ExpressionInputs ==
  {Absent, Str(S_rate), Str(<<" ">> \o S_rate \o <<" ">>), Str(<<" ", " ">>), Str(<<>>),
   Num(5)}

WhenInputs ==
  {Absent, None, Str(S_daily), EmptyDict, Dict("type" :> Str(S_hourly)),
   Dict("type" :> Num(1))}
  \cup {When(Str(S_daily), t, Absent, Absent) : t \in TimeInputs}
  \cup {When(Str(S_daily), Str(S_0700), List(<<Str(S_MON)>>), Str(S_rate))}
  \cup {When(Str(S_weekly), t, d, Absent) : t \in {Absent, Str(S_730), Num(7)},
                                            d \in DaysInputs}
  \cup {When(Str(S_cron), Absent, Absent, e) : e \in ExpressionInputs}
  \cup {When(Str(S_cron), Str(S_0700), List(<<Str(S_MON)>>), Str(S_rate))}
  \cup {When(ty, Str(<<"7", "a", "m">>), d, Num(5)) :
          ty \in {Absent, None, Str(S_hourly), Str(<<"D", "A", "I", "L", "Y">>)},
          d \in {List(<<>>), List(<<Str(S_FUNDAY)>>), List(<<Num(1)>>)}}

\* Bodies with one field varied at a time besides `when`, and non-objects.
ValidatorBodies ==
  {Body(ti, Absent, Absent, w) : ti \in TitleInputs, w \in WhenInputs}
  \cup {Body(Str(<<"A">>), st, tz, w) : st \in StepsInputs, tz \in TimezoneInputs,
                                        w \in {Absent, When(Str(S_cron), Absent, Absent,
                                                            Str(S_rate))}}
  \cup {Body(Str(<<"A">>), Absent, tz, When(ty, t, d, Absent)) :
          tz \in TimezoneInputs, ty \in {Str(S_daily), Str(S_weekly)},
          t \in {Absent, Str(S_0805), Str(S_730)},
          d \in {Absent, List(<<Str(S_WED), Str(S_MON)>>)}}
  \cup {List(<<>>), None, Str(<<"x">>), Num(1)}

InitV ==
  /\ store = <<>>
  /\ sched = <<>>
  /\ req = [p \in Procs |-> IdleReq]
  /\ issued = {}
  /\ nreq = 0
  /\ vcase \in {[phase |-> "input", data |-> d, is_update |-> u] :
                  d \in ValidatorBodies, u \in BOOLEAN}
  /\ ics = NoExport

\* The handler calls validate_routine_data (lines 262 and 310).
Validate ==
  /\ vcase.phase = "input"
  /\ vcase' = [phase |-> "validated", data |-> vcase.data, is_update |-> vcase.is_update,
               result |-> validate_routine_data(vcase.data, vcase.is_update)]
  /\ UNCHANGED <<store, sched, req, issued, nreq, ics>>

\* The record an update finds: the one a POST with no field creates.
CurrentV == NewRoutine(Str(U1), R1, EmptyDict)

\* lines 272-280 and 328-339: the routine handed to create_schedule
RoutineV(cleaned, is_update) ==
  IF is_update THEN ApplyFields(CurrentV, cleaned, <<"title", "steps", "timezone", "when">>)
  ELSE NewRoutine(Str(U1), R1, cleaned)

\* The schedule of an accepted body reaches create_schedule (lines 278-283 and
\* 339-340).
Compile ==
  /\ vcase.phase = "validated"
  /\ ~vcase.result.raised
  /\ Len(vcase.result.errors) = 0
  /\ Has(vcase.result.cleaned, "when")
  /\ vcase' = [phase |-> "compiled", data |-> vcase.data, is_update |-> vcase.is_update,
               result |-> vcase.result,
               compiled |-> ScheduleExpression(vcase.result.cleaned.v["when"]),
               routine |-> RoutineV(vcase.result.cleaned, vcase.is_update),
               request |-> CreateScheduleRequest(
                             Str(U1), RoutineV(vcase.result.cleaned, vcase.is_update))]
  /\ UNCHANGED <<store, sched, req, issued, nreq, ics>>

NextV == Validate \/ Compile

SpecV == InitV /\ [][NextV]_vars

(***************************************************************************)
(* ics_handler.py: the calendar exporter                                   *)
(***************************************************************************)
\* The string literals of ics_handler.py, character by character.
L_BEGIN_VCALENDAR ==
  <<"B", "E", "G", "I", "N", ":", "V", "C", "A", "L", "E", "N", "D", "A", "R">>
L_VERSION == <<"V", "E", "R", "S", "I", "O", "N", ":", "2", ".", "0">>
L_PRODID ==
  <<"P", "R", "O", "D", "I", "D", ":", "-", "/", "/", "S", "h", "e", "G", "l", "o",
      "w", "/", "/", "C", "o", "n", "c", "i", "e", "r", "g", "e", " ", "C", "a", "l",
      "e", "n", "d", "a", "r", "/", "/", "E", "N">>
L_CALSCALE ==
  <<"C", "A", "L", "S", "C", "A", "L", "E", ":", "G", "R", "E", "G", "O", "R", "I",
      "A", "N">>
L_METHOD == <<"M", "E", "T", "H", "O", "D", ":", "P", "U", "B", "L", "I", "S", "H">>
L_END_VCALENDAR == <<"E", "N", "D", ":", "V", "C", "A", "L", "E", "N", "D", "A", "R">>
L_BEGIN_VEVENT == <<"B", "E", "G", "I", "N", ":", "V", "E", "V", "E", "N", "T">>
L_END_VEVENT == <<"E", "N", "D", ":", "V", "E", "V", "E", "N", "T">>
L_UID == <<"U", "I", "D", ":">>
L_at_sheglow_app == <<"@", "s", "h", "e", "g", "l", "o", "w", ".", "a", "p", "p">>
L_DTSTAMP == <<"D", "T", "S", "T", "A", "M", "P", ":">>
L_SUMMARY == <<"S", "U", "M", "M", "A", "R", "Y", ":">>
L_DESCRIPTION == <<"D", "E", "S", "C", "R", "I", "P", "T", "I", "O", "N", ":">>
L_DTSTART_TZID == <<"D", "T", "S", "T", "A", "R", "T", ";", "T", "Z", "I", "D", "=">>
L_RRULE_DAILY ==
  <<"R", "R", "U", "L", "E", ":", "F", "R", "E", "Q", "=", "D", "A", "I", "L", "Y">>
L_RRULE_WEEKLY_BYDAY ==
  <<"R", "R", "U", "L", "E", ":", "F", "R", "E", "Q", "=", "W", "E", "E", "K", "L",
      "Y", ";", "B", "Y", "D", "A", "Y", "=">>
L_Custom_Schedule ==
  <<" ", "(", "C", "u", "s", "t", "o", "m", " ", "S", "c", "h", "e", "d", "u", "l",
      "e", ")">>
L_cron_note ==
  <<" ", "-", " ", "N", "o", "t", "e", ":", " ", "C", "u", "s", "t", "o", "m", " ",
      "c", "r", "o", "n", " ", "s", "c", "h", "e", "d", "u", "l", "e", " ", "n", "o",
      "t", " ", "f", "u", "l", "l", "y", " ", "s", "u", "p", "p", "o", "r", "t", "e",
      "d", " ", "i", "n", " ", "c", "a", "l", "e", "n", "d", "a", "r">>
L_Routine == <<"R", "o", "u", "t", "i", "n", "e">>
L_unknown == <<"u", "n", "k", "n", "o", "w", "n">>
L_steps_prefix ==
  <<"S", "h", "e", "G", "l", "o", "w", " ", "r", "o", "u", "t", "i", "n", "e", " ",
      "s", "t", "e", "p", "s", ":", " ">>
L_SheGlow_routine ==
  <<"S", "h", "e", "G", "l", "o", "w", " ", "r", "o", "u", "t", "i", "n", "e">>
L_T070000 == <<"T", "0", "7", "0", "0", "0", "0">>
L_None == <<"N", "o", "n", "e">>
L_ellipsis == <<".", ".", ".">>

\* lines 14-22
WEEKDAY_MAPPING ==
  (S_MON :> <<"M", "O">>) @@ (S_TUE :> <<"T", "U">>) @@ (S_WED :> <<"W", "E">>)
  @@ (S_THU :> <<"T", "H">>) @@ (S_FRI :> <<"F", "R">>) @@ (S_SAT :> <<"S", "A">>)
  @@ (S_SUN :> <<"S", "U">>)

\* lines 40-41: texts longer than TEXT_LIMIT are cut to TEXT_KEEP characters
\* and "..." is appended.
TEXT_LIMIT == 500
TEXT_KEEP == 497

\* str(x) and the f-string rendering of a value: a str is itself, an int its
\* decimal digits, None the text "None".
PyStr(x) ==
  CASE x.t = "str" -> x.v
    [] x.t = "num" -> IntStr(x.v)
    [] x.t = "null" -> L_None

\* text.replace(c, r) for a one-character c: every occurrence of c becomes
\* r (computed half by half)
RECURSIVE Replace(_, _, _)
Replace(text, c, r) ==
  IF Len(text) = 0 THEN <<>>
  ELSE IF Len(text) = 1 THEN (IF text[1] = c THEN r ELSE text)
  ELSE LET h == Len(text) \div 2 IN
       Replace(SubSeq(text, 1, h), c, r) \o Replace(SubSeq(text, h + 1, Len(text)), c, r)

\* Mutant of EscapeSteps: the backslash is escaped last.
EscapeStepsBackslashLast ==
  <<[c |-> ",", r |-> <<"\\", ",">>],
    [c |-> ";", r |-> <<"\\", ";">>],
    [c |-> "\n", r |-> <<"\\", "n">>],
    [c |-> "\r", r |-> <<>>],
    [c |-> "\\", r |-> <<"\\", "\\">>]>>

\* lines 33-37: the replacements, in the order they are applied
EscapeSteps ==
  <<[c |-> "\\", r |-> <<"\\", "\\">>],
    [c |-> ",", r |-> <<"\\", ",">>],
    [c |-> ";", r |-> <<"\\", ";">>],
    [c |-> "\n", r |-> <<"\\", "n">>],
    [c |-> "\r", r |-> <<>>]>>

RECURSIVE ApplyReplacements(_, _)
ApplyReplacements(text, steps) ==
  IF Len(steps) = 0 THEN text
  ELSE ApplyReplacements(Replace(text, Head(steps).c, Head(steps).r), Tail(steps))

\* lines 24-43: escape_ics_text(text), the content of the returned str
escape_ics_text(text) ==
  IF ~Truthy(text) THEN <<>>
  ELSE LET escaped == ApplyReplacements(PyStr(text), EscapeSteps) IN
       IF Len(escaped) > TEXT_LIMIT
       THEN SubSeq(escaped, 1, TEXT_KEEP) \o L_ellipsis
       ELSE escaped

\* lines 45-56: validate_time_format of ics_handler.py; ok = FALSE when it
\* raises ValueError
ics_validate_time_format(time_str) ==
  IF IsStr(time_str) /\ TimeMatches(time_str.v)
  THEN LET c == TimeCore(time_str.v)
           n == Len(c)
       IN [ok |-> TRUE, hh |-> IntOf(SubSeq(c, 1, n - 3)), mm |-> IntOf(SubSeq(c, n - 1, n))]
  ELSE [ok |-> FALSE, hh |-> 0, mm |-> 0]

\* lines 58-60
get_base_date == <<"1", "9", "7", "0", "0", "1", "0", "5">>

\* f"{n:02d}"
Format02d(n) == IF n < 10 THEN <<"0">> \o IntStr(n) ELSE IntStr(n)

\* lines 73-77: [ok, text]; '; '.join(steps) raises TypeError unless steps is
\* a list of str or a str
Description(steps) ==
  IF ~Truthy(steps) THEN [ok |-> TRUE, text |-> L_SheGlow_routine]
  ELSE IF IsList(steps) /\ \A i \in 1..Len(steps.v) : IsStr(steps.v[i])
       THEN [ok |-> TRUE,
             text |-> L_steps_prefix
                      \o Join(<<";", " ">>, [i \in 1..Len(steps.v) |-> steps.v[i].v])]
       ELSE IF IsStr(steps)
            THEN [ok |-> TRUE,
                  text |-> L_steps_prefix
                           \o Join(<<";", " ">>, [i \in 1..Len(steps.v) |-> <<steps.v[i]>>])]
            ELSE [ok |-> FALSE, text |-> <<>>]

\* Mutant of IcsDays: an unmapped day is kept as it is written.
IcsDaysKeepUnmapped(days) ==
  [i \in 1..Len(days) |->
     IF IsStr(days[i]) /\ days[i].v \in DOMAIN WEEKDAY_MAPPING
     THEN WEEKDAY_MAPPING[days[i].v] ELSE PyStr(days[i])]

\* lines 113-118: the mapped days, in order; the others are dropped
IcsDays(days) ==
  LET mapped == SelectSeq(days, LAMBDA d : IsStr(d) /\ d.v \in DOMAIN WEEKDAY_MAPPING)
  IN [i \in 1..Len(mapped) |-> WEEKDAY_MAPPING[mapped[i].v]]

\* lines 107 and 114-115: the elements `for day in days` visits, a list's
\* elements or a str's characters; ok = FALSE when the loop raises TypeError
\* (days is not iterable, or an element is unhashable)
DaysIterated(days) ==
  IF IsList(days)
  THEN [ok |-> \A i \in 1..Len(days.v) : ~IsList(days.v[i]) /\ ~IsDict(days.v[i]),
        elems |-> days.v]
  ELSE IF IsStr(days)
       THEN [ok |-> TRUE, elems |-> [i \in 1..Len(days.v) |-> Str(<<days.v[i]>>)]]
       ELSE [ok |-> FALSE, elems |-> <<>>]

\* The result of create_ics_event: None, or the list of the event's lines.
NoEvent == [ok |-> FALSE, lines |-> <<>>]
Event(lines) == [ok |-> TRUE, lines |-> lines]

\* Mutant of EventStart: the hour and minute are written unpadded.
EventStartUnpadded(hh, mm) ==
  get_base_date \o <<"T">> \o IntStr(hh) \o IntStr(mm) \o <<"0", "0">>

\* lines 89 and 125: f"{get_base_date()}T{hh:02d}{mm:02d}00"
EventStart(hh, mm) ==
  get_base_date \o <<"T">> \o Format02d(hh) \o Format02d(mm) \o <<"0", "0">>

\* Mutant of RecurrenceRule: a cron routine recurs daily.
RecurrenceRuleCronDaily(schedule_type, ics_days) ==
  IF schedule_type = Str(S_weekly)
  THEN <<L_RRULE_WEEKLY_BYDAY \o Join(<<",">>, ics_days)>>
  ELSE <<L_RRULE_DAILY>>

\* lines 98, 124, 134 and 147-155: the RRULE line of the event, if it has one
RecurrenceRule(schedule_type, ics_days) ==
  IF schedule_type = Str(S_daily) THEN <<L_RRULE_DAILY>>
  ELSE IF schedule_type = Str(S_weekly)
       THEN <<L_RRULE_WEEKLY_BYDAY \o Join(<<",">>, ics_days)>>
       ELSE <<>>

\* Mutant of EventLines: the UID carries the generation timestamp.
EventLinesUidStamped(routine_id, now, summary, description, tz, dtstart, rrule) ==
  <<L_BEGIN_VEVENT,
    L_UID \o PyStr(routine_id) \o <<"-">> \o now \o L_at_sheglow_app,
    L_DTSTAMP \o now,
    L_SUMMARY \o summary,
    L_DESCRIPTION \o description,
    L_DTSTART_TZID \o PyStr(tz) \o <<":">> \o dtstart>>
  \o rrule \o <<L_END_VEVENT>>

\* lines 91-100, 127-136 and 147-155: the lines of a VEVENT
EventLines(routine_id, now, summary, description, tz, dtstart, rrule) ==
  <<L_BEGIN_VEVENT,
    L_UID \o PyStr(routine_id) \o L_at_sheglow_app,
    L_DTSTAMP \o now,
    L_SUMMARY \o summary,
    L_DESCRIPTION \o description,
    L_DTSTART_TZID \o PyStr(tz) \o <<":">> \o dtstart>>
  \o rrule \o <<L_END_VEVENT>>

\* lines 62-163: create_ics_event(routine), `now` being the text of
\* datetime.now(timezone.utc).  Every exception raised inside the try block
\* is caught and None returned.
create_ics_event(routine, now) ==
  LET title == escape_ics_text(GetD(routine, "title", Str(L_Routine)))
      routine_id == GetD(routine, "routineId", Str(L_unknown))
      when == GetD(routine, "when", EmptyDict)
      tz == GetD(routine, "timezone", Str(S_America_New_York))
      desc == Description(GetD(routine, "steps", List(<<>>)))
      description == escape_ics_text(Str(desc.text))
  IN IF ~desc.ok \/ ~IsDict(when) THEN NoEvent
     ELSE LET schedule_type == Get(when, "type") IN
          IF schedule_type = Str(S_daily)
          THEN LET t == ics_validate_time_format(GetD(when, "time", Str(S_0700))) IN
               IF ~t.ok THEN NoEvent
               ELSE Event(EventLines(routine_id, now, title, description, tz,
                                     EventStart(t.hh, t.mm),
                                     RecurrenceRule(schedule_type, <<>>)))
          ELSE IF schedule_type = Str(S_weekly)
          THEN LET t == ics_validate_time_format(GetD(when, "time", Str(S_0700)))
                   days == DaysIterated(GetD(when, "days", List(<<Str(S_MON)>>)))
               IN IF ~t.ok \/ ~days.ok THEN NoEvent
                  ELSE LET ics_days == IcsDays(days.elems) IN
                       IF Len(ics_days) = 0 THEN NoEvent
                       ELSE Event(EventLines(routine_id, now, title, description, tz,
                                             EventStart(t.hh, t.mm),
                                             RecurrenceRule(schedule_type, ics_days)))
          ELSE IF schedule_type = Str(S_cron)
          THEN Event(EventLines(routine_id, now, title \o L_Custom_Schedule,
                                description \o L_cron_note, tz,
                                get_base_date \o L_T070000,
                                RecurrenceRule(schedule_type, <<>>)))
          ELSE NoEvent

\* lines 169-175: the ICS header
CalendarHeader == <<L_BEGIN_VCALENDAR, L_VERSION, L_PRODID, L_CALSCALE, L_METHOD>>

(***************************************************************************)
(* to_ics (lines 165-201), one routine at a time, and escape_ics_text on   *)
(* its own                                                                 *)
(***************************************************************************)
MaxBatch == 3
MaxTextLen == 3

\* Values of datetime.now(timezone.utc).strftime('%Y%m%dT%H%M%SZ')
Nows ==
  {<<"2", "0", "2", "4", "0", "1", "0", "1", "T", "0", "0", "0", "0", "0", "0", "Z">>,
   <<"2", "0", "2", "5", "0", "6", "1", "5", "T", "1", "2", "3", "4", "5", "6", "Z">>}

\* A routine record holding the fields that are not Absent.
Routine(routineId, title, steps, timezone, when) ==
  LET f == ("routineId" :> routineId) @@ ("title" :> title) @@ ("steps" :> steps)
           @@ ("timezone" :> timezone) @@ ("when" :> when)
  IN Dict([k \in {q \in DOMAIN f : f[q] # Absent} |-> f[k]])

IcsDaysInputs ==
  {Absent, None, List(<<>>), Str(S_MON), List(<<Str(S_MON), Str(S_WED), Str(S_FRI)>>),
   List(<<Str(S_FRI), Str(S_MON)>>), List(<<Str(S_SUN), Str(S_SUN)>>),
   List(<<Str(S_MON), Str(S_TUE), Str(S_WED), Str(S_THU), Str(S_FRI), Str(S_SAT),
          Str(S_SUN)>>),
   List(<<Str(S_FUNDAY)>>), List(<<Str(S_MON), Str(S_FUNDAY), Str(S_XDAY)>>),
   List(<<Str(S_FUNDAY), Str(S_TUE), Num(1)>>), List(<<Num(1)>>),
   List(<<Str(S_MON), None>>), List(<<Str(S_MON), List(<<Str(S_TUE)>>)>>)}

IcsWhenInputs ==
  {Absent, None, Str(S_daily), EmptyDict, Dict("type" :> Str(S_hourly))}
  \cup {When(Str(S_daily), t, Absent, Absent) : t \in TimeInputs}
  \cup {When(Str(S_weekly), t, d, Absent) :
          t \in {Absent, Str(S_730), Str(S_0805), Str(<<"7", "a", "m">>)},
          d \in IcsDaysInputs}
  \cup {When(Str(S_cron), t, Absent, e) : t \in {Absent, Str(S_0805)},
                                          e \in {Absent, Str(S_rate)}}

IcsTitleInputs ==
  {Absent, None, Str(<<"A">>), Num(5), Str(<<"A", ",", " ", "B", ";", " ", "C", "\n">>),
   Str(<<"a", "\\", "b", "\r", "\n">>)}

IcsStepsInputs ==
  {Absent, List(<<>>), List(<<Str(<<"x">>), Str(<<"y", ",", "z">>)>>), Str(<<"a", "b">>),
   List(<<Str(<<"x">>), Num(2)>>), Num(5)}

\* A timezone text with line breaks inside: UTC, CR LF, BEGIN:VEVENT, CR LF, X.
S_UTC_broken ==
  <<"U", "T", "C", "\r", "\n", "B", "E", "G", "I", "N", ":", "V", "E", "V", "E", "N", "T",
    "\r", "\n", "X">>

\* Three steps of the greatest length the validator lets through.
LongSteps ==
  List(<<Str(Rep("x", MAX_STEP_LENGTH)), Str(Rep("y", MAX_STEP_LENGTH)),
         Str(Rep("z", MAX_STEP_LENGTH))>>)

\* The records exported one at a time: every schedule with plain fields, and
\* every combination of the other fields with three schedules.
RoutineInputs ==
  {Routine(Str(R1), Str(<<"A">>), Absent, tz, w) :
     tz \in {Absent, Str(S_UTC)}, w \in IcsWhenInputs}
  \cup {Routine(id, ti, st, Str(S_UTC), w) :
          id \in {Absent, Str(R1), Num(7)}, ti \in IcsTitleInputs, st \in IcsStepsInputs,
          w \in {WhenDaily(S_0805), WhenWeekly(S_730, <<Str(S_FRI), Str(S_MON)>>),
                 WhenCron(S_rate)}}
  \cup {Routine(Str(R1), ti, st, Str(S_UTC), w) :
          ti \in {Str(<<"A">>), Str(Rep(",", MAX_TITLE_LENGTH))},
          st \in {LongSteps, List(<<Str(Rep(";", MAX_STEP_LENGTH))>>)},
          w \in {WhenDaily(S_0805), WhenWeekly(S_730, <<Str(S_FRI), Str(S_MON)>>),
                 WhenCron(S_rate)}}
  \cup {Routine(Str(R1), Str(<<"A", "\n", "B">>), List(<<Str(<<"x", "\r", "\n", "y">>)>>),
                tz, w) :
          tz \in {Str(S_UTC), Str(S_UTC_broken)},
          w \in {WhenDaily(S_0805), WhenWeekly(S_730, <<Str(S_FRI), Str(S_MON)>>),
                 WhenCron(S_rate)}}

\* The records exported in batches: three exportable ones, one with an
\* unparseable time, one with an unsupported type and one with no schedule.
BatchRoutines ==
  {Routine(Str(R1), Str(<<"A">>), List(<<Str(<<"x">>)>>), Str(S_UTC), WhenDaily(S_0805)),
   Routine(Str(R2), Str(<<"B">>), List(<<>>), Str(S_UTC),
           WhenWeekly(S_730, <<Str(S_MON), Str(S_WED), Str(S_FRI)>>)),
   Routine(Str(R3), Str(<<"C">>), List(<<>>), Str(S_UTC), WhenCron(S_rate)),
   Routine(Str(R1), Str(<<"D">>), Absent, Str(S_UTC),
           When(Str(S_daily), Str(<<"7", "a", "m">>), Absent, Absent)),
   Routine(Str(R2), Absent, Absent, Absent, Dict("type" :> Str(S_hourly))),
   Routine(Absent, Absent, Absent, Absent, None)}

\* The records the routines handler persists for the payloads of
\* ValidatorBodies: the payload is accepted as a creation or as an update,
\* create_schedule reaches the scheduler with it (lines 283 and 340), and the
\* record is written with its scheduleName (lines 284-287 and 340-343).
PersistedRoutines ==
  LET accepted ==
        {c \in ValidatorBodies \X BOOLEAN :
           LET v == validate_routine_data(c[1], c[2]) IN
           /\ ~v.raised
           /\ Len(v.errors) = 0
           /\ CreateScheduleRequest(Str(U1), RoutineV(v.cleaned, c[2])).ok}
  IN {Put(RoutineV(validate_routine_data(c[1], c[2]).cleaned, c[2]), "scheduleName",
          Str(ScheduleName(U1, R1))) : c \in accepted}

ExportBatches ==
  {<<r>> : r \in RoutineInputs \cup PersistedRoutines}
  \cup UNION {[1..n -> BatchRoutines] : n \in 0..MaxBatch}

EscapeAlphabet == {"a", "n", "\\", ",", ";", "\n", "\r"}

\* The texts handed to escape_ics_text: every text over the alphabet up to
\* MaxTextLen characters, texts around the length limit, and values that are
\* not text.
EscapeInputs ==
  {Str(t) : t \in UNION {[1..n -> EscapeAlphabet] : n \in 0..MaxTextLen}}
  \cup {Str(Rep("a", TEXT_LIMIT)), Str(Rep("a", TEXT_LIMIT + 1)),
        Str(Rep(",", TEXT_LIMIT \div 2)), Str(Rep(",", TEXT_LIMIT \div 2 + 1)),
        Str(Rep("a", TEXT_KEEP - 1) \o <<"\\", "a", "a">>),
        Str(<<"A", ",", " ", "B", ";", " ", "C", "\n">>)}
  \cup {None, Num(0), Num(15)}

InitI ==
  /\ store = <<>>
  /\ sched = <<>>
  /\ req = [p \in Procs |-> IdleReq]
  /\ issued = {}
  /\ nreq = 0
  /\ vcase = NoCase
  /\ \/ ics \in {[phase |-> "text", text |-> t] : t \in EscapeInputs}
     \/ ics \in {[phase |-> "input", routines |-> b] : b \in ExportBatches}

\* escape_ics_text(text)
Escape ==
  /\ ics.phase = "text"
  /\ ics' = [phase |-> "escaped", text |-> ics.text, out |-> escape_ics_text(ics.text)]
  /\ UNCHANGED <<store, sched, req, issued, nreq, vcase>>

\* lines 169-180: the header, event_count = 0.  `skipped` counts the
\* warnings of line 189.
ExportBegin ==
  /\ ics.phase = "input"
  /\ ics' = [phase |-> "loop", routines |-> ics.routines, i |-> 1,
             lines |-> CalendarHeader, event_count |-> 0, skipped |-> 0,
             events |-> <<>>]
  /\ UNCHANGED <<store, sched, req, issued, nreq, vcase>>

\* lines 183-189: one iteration of the loop.  `events` keeps what
\* create_ics_event returned for each routine.
ExportRoutine ==
  /\ ics.phase = "loop"
  /\ ics.i <= Len(ics.routines)
  /\ \E now \in Nows :
       LET event == create_ics_event(ics.routines[ics.i], now) IN
       ics' = [ics EXCEPT !.i = @ + 1,
                          !.lines = IF event.ok THEN @ \o event.lines ELSE @,
                          !.event_count = IF event.ok THEN @ + 1 ELSE @,
                          !.skipped = IF event.ok THEN @ ELSE @ + 1,
                          !.events = Append(@, event)]
  /\ UNCHANGED <<store, sched, req, issued, nreq, vcase>>

\* lines 191-197: the footer, and the lines joined with CRLF
ExportEnd ==
  /\ ics.phase = "loop"
  /\ ics.i > Len(ics.routines)
  /\ ics' = [phase |-> "done", routines |-> ics.routines, events |-> ics.events,
             event_count |-> ics.event_count, skipped |-> ics.skipped,
             lines |-> Append(ics.lines, L_END_VCALENDAR),
             document |-> Join(<<"\r", "\n">>, Append(ics.lines, L_END_VCALENDAR))]
  /\ UNCHANGED <<store, sched, req, issued, nreq, vcase>>

NextI == Escape \/ ExportBegin \/ ExportRoutine \/ ExportEnd

SpecI == InitI /\ [][NextI]_vars

(***************************************************************************)
(* Properties                                                              *)
(***************************************************************************)
\* Positions in r.calls of the calls of `op`, and of the scheduler's calls.
CallsOf(r, op) == {i \in 1..Len(r.calls) : r.calls[i].op = op}
SchedulerCalls(r) == CallsOf(r, "create_schedule") \cup CallsOf(r, "delete_schedule")
Ops(r) == [i \in 1..Len(r.calls) |-> r.calls[i].op]

\* The record a PUT or DELETE request addresses, as stored now.
Stored(r) == StoreGet(Key(r.user, r.rid))

\* C1: after any sequence of POST, PUT and DELETE requests handled one at a
\* time, with every scheduler and store call free to fail, every stored
\* record has a scheduleName that names a trigger registered in the scheduler.
C1_PersistedRecordHasLiveTrigger ==
  (\A p \in Procs : req[p].pc \in {"idle", "done"}) =>
    \A k \in DOMAIN store :
      /\ Truthy(Get(store[k], "scheduleName"))
      /\ store[k].v["scheduleName"].v \in DOMAIN sched

\* C2: a POST that does not answer 201 (validation failed, registration
\* failed or the store write failed) wrote no record: no put_item of it
\* succeeded and the store holds nothing under the id it generated.
C2_FailedCreatePersistsNothing ==
  \A p \in Procs :
    LET r == req[p] IN
    (r.method = "POST" /\ r.pc = "done" /\ r.status # 201) =>
      /\ \A i \in CallsOf(r, "put_item") : r.calls[i].outcome # "ok"
      /\ r.routine # None =>
           Key(r.routine.v["userId"], r.routine.v["routineId"]) \notin DOMAIN store

\* A POST answered 500 because the store write failed after the trigger was
\* registered.
C2_Witness ==
  \E p \in Procs :
    LET r == req[p] IN
    /\ r.method = "POST" /\ r.pc = "done" /\ r.status = 500
    /\ Ops(r) = <<"create_schedule", "put_item", "delete_schedule">>
    /\ r.calls[1].outcome = "ok"
    /\ r.calls[2].outcome = "fail"

\* C3: in every creation the record is written only after create_schedule
\* has succeeded, and the registration is never attempted after the write.
C3_RegistrationPrecedesPersistence ==
  \A p \in Procs :
    LET r == req[p] IN
    r.method = "POST" =>
      \A i \in CallsOf(r, "put_item") :
        /\ \E j \in 1..(i - 1) :
             r.calls[j].op = "create_schedule" /\ r.calls[j].outcome = "ok"
        /\ \A j \in (i + 1)..Len(r.calls) : r.calls[j].op # "create_schedule"

\* A creation answered 201: trigger registered, then record written.
C3_Witness ==
  \E p \in Procs :
    LET r == req[p] IN
    /\ r.method = "POST" /\ r.pc = "done" /\ r.status = 201
    /\ Ops(r) = <<"create_schedule", "put_item">>
    /\ Key(r.routine.v["userId"], r.routine.v["routineId"]) \in DOMAIN store

\* C4: a DELETE of an existing routine that has a scheduleName attempts the
\* trigger deletion before the record deletion, and whatever the outcome of
\* the trigger deletion the record deletion is made; when the store accepts
\* it the record is gone and the answer is 204.
C4_DeleteNotBlockedByTrigger ==
  \A p \in Procs :
    LET r == req[p] IN
    (/\ r.method = "DELETE" /\ r.pc = "done"
     /\ r.old # None
     /\ Truthy(Get(r.old, "scheduleName"))) =>
      /\ Ops(r) = <<"get_item", "delete_schedule", "delete_item">>
      /\ r.calls[2].name = r.old.v["scheduleName"].v
      /\ r.calls[3].outcome = "ok" =>
           r.status = 204 /\ Key(r.user, r.rid) \notin DOMAIN store

\* C5: an update makes a scheduler call exactly when its payload carries a
\* schedule.  Without `when` no scheduler call is made and the scheduleName
\* is kept; with a valid `when` the record is persisted only after the
\* deletion of the old trigger was called and then the new one registered;
\* title, steps and timezone are replaced by the cleaned values and otherwise
\* kept.
C5_PutTouchesTriggerIffWhen ==
  \A p \in Procs :
    LET r == req[p] IN
    r.method = "PUT" =>
      /\ ~Has(r.cleaned, "when") => SchedulerCalls(r) = {}
      /\ (Has(r.cleaned, "when") /\ r.old # None /\ r.pc = "done") =>
           CallsOf(r, "delete_schedule") # {}
      /\ (Has(r.cleaned, "when") /\ CallsOf(r, "put_item") # {}) =>
           /\ Ops(r) = <<"get_item", "delete_schedule", "create_schedule", "put_item">>
           /\ r.calls[2].name = r.old.v["scheduleName"].v
           /\ r.calls[3].outcome = "ok"
      /\ (r.pc = "done" /\ r.status = 200) =>
           /\ \A f \in {"title", "steps", "timezone", "when"} :
                Stored(r).v[f] = IF Has(r.cleaned, f) THEN r.cleaned.v[f] ELSE r.old.v[f]
           /\ ~Has(r.cleaned, "when") =>
                Stored(r).v["scheduleName"] = r.old.v["scheduleName"]

\* An update answered 200 that carried a schedule and other fields.
C5_Witness ==
  \E p \in Procs :
    LET r == req[p] IN
    /\ r.method = "PUT" /\ r.pc = "done" /\ r.status = 200
    /\ Has(r.cleaned, "when") /\ Has(r.cleaned, "title")
    /\ Len(r.calls) = 4
    /\ Stored(r).v["when"] # r.old.v["when"]

\* The routines the system knows: stored ones and those being created.
KnownRoutines ==
  DOMAIN store
  \cup {Key(req[p].routine.v["userId"], req[p].routine.v["routineId"]) :
          p \in {q \in Procs : req[q].pc \in {"post", "post_cleanup"}}}

\* C6: two distinct (userId, routineId) pairs never yield the same trigger
\* name, so a creation never finds its name held by the trigger of another
\* routine.
C6_TriggerNameUnique ==
  /\ \A k1, k2 \in KnownRoutines :
       k1 # k2 => ScheduleName(k1[1], k1[2]) # ScheduleName(k2[1], k2[2])
  /\ \A p \in Procs :
       LET r == req[p] IN
       (r.pc = "post" /\ r.schedule_name = None) =>
         LET name == ScheduleName(r.user.v, r.routine.v["routineId"].v) IN
         name \in DOMAIN sched => sched[name].routineId = r.routine.v["routineId"]

\* C7: every schedule the validator accepts compiles to an expression:
\* create_schedule does not raise before calling the scheduler.
C7_AcceptedScheduleCompiles ==
  vcase.phase = "compiled" => vcase.compiled.ok

\* C8: for every request body validation returns (cleaned data, errors) and
\* never raises.
C8_ValidationNeverRaises ==
  vcase.phase \in {"validated", "compiled"} => ~vcase.result.raised

\* time names an hour 0-23 and a minute 0-59
IsTimeOfDay(x) ==
  /\ IsStr(x)
  /\ TimeMatches(x.v)
  /\ validate_time_format(x).hh \in 0..23
  /\ validate_time_format(x).mm \in 0..59

\* exactly the fields of the type, each well-formed
IsScheduleSpec(w) ==
  /\ IsDict(w)
  /\ Has(w, "type")
  /\ \/ /\ w.v["type"] = Str(S_daily)
        /\ DOMAIN w.v = {"type", "time"}
        /\ IsTimeOfDay(w.v["time"])
     \/ /\ w.v["type"] = Str(S_weekly)
        /\ DOMAIN w.v = {"type", "time", "days"}
        /\ IsTimeOfDay(w.v["time"])
        /\ IsList(w.v["days"])
        /\ Len(w.v["days"].v) > 0
        /\ \A i \in 1..Len(w.v["days"].v) : InValidWeekdays(w.v["days"].v[i])
     \/ /\ w.v["type"] = Str(S_cron)
        /\ DOMAIN w.v = {"type", "expression"}
        /\ IsStr(w.v["expression"])
        /\ Len(w.v["expression"].v) > 0

\* C9: every schedule returned by the validator with an empty error list is
\* a ScheduleSpec: exactly the fields of its type, days a non-empty list of
\* weekday codes, expression a non-empty string, time an hour and a minute.
C9_AcceptedScheduleIsScheduleSpec ==
  (/\ vcase.phase = "validated"
   /\ ~vcase.result.raised
   /\ Len(vcase.result.errors) = 0
   /\ Has(vcase.result.cleaned, "when")) =>
    IsScheduleSpec(vcase.result.cleaned.v["when"])

\* The payload carries the field (with a value other than null).
Present(body, f) == Has(body, f) /\ ~IsNone(body.v[f])

\* C10: in an update an absent field is left as stored, and a present field
\* is applied to the record unless validation reports an error: an update
\* answered 200 stored the cleaned value of every field its payload carried.
C10_PresentFieldAppliedOrRejected ==
  \A p \in Procs :
    LET r == req[p] IN
    (r.method = "PUT" /\ r.pc = "done" /\ r.status = 200) =>
      \A f \in {"title", "steps", "timezone", "when"} :
        IF Present(r.body, f)
        THEN Has(r.cleaned, f) /\ Stored(r).v[f] = r.cleaned.v[f]
        ELSE Stored(r).v[f] = r.old.v[f]

\* The errors the validator reports about the schedule.
ScheduleMessages ==
  {"when must be an object",
   "when.type must be 'daily', 'weekly', or 'cron'",
   "when.time: Time must be a string",
   "when.time: Time must be in HH:MM format (00:00-23:59)",
   "when.days must be a non-empty array for weekly schedules",
   "Invalid days: {}. Valid options: {}",
   "when.expression is required for cron schedules"}
ScheduleErrors(errors) == SelectSeq(errors, LAMBDA e : e.msg \in ScheduleMessages)

\* The payload's schedule is an object whose type is missing or is not one
\* of 'daily', 'weekly', 'cron'.
InvalidType(data) ==
  /\ IsDict(data)
  /\ Has(data, "when")
  /\ IsDict(data.v["when"])
  /\ Get(data.v["when"], "type") \notin {Str(S_daily), Str(S_weekly), Str(S_cron)}

\* C11: when the schedule's type is missing or is not 'daily', 'weekly' or
\* 'cron', validation returns with exactly one error about the schedule, the
\* one about the type (no error about time, days or expression), and with no
\* schedule in the cleaned data.
C11_InvalidTypeIsSingleError ==
  (vcase.phase = "validated" /\ InvalidType(vcase.data)) =>
    /\ ~vcase.result.raised
    /\ ScheduleErrors(vcase.result.errors)
         = <<Err("when.type must be 'daily', 'weekly', or 'cron'", <<>>)>>
    /\ ~Has(vcase.result.cleaned, "when")

\* A validated schedule of an unknown type whose time, days and expression
\* would each be rejected by their own checks.
C11_Witness ==
  /\ vcase.phase = "validated"
  /\ InvalidType(vcase.data)
  /\ Get(vcase.data.v["when"], "type") = Str(S_hourly)
  /\ ~validate_time_format(Get(vcase.data.v["when"], "time")).ok
  /\ Get(vcase.data.v["when"], "days") = List(<<Str(S_FUNDAY)>>)
  /\ Get(vcase.data.v["when"], "expression") = Num(5)

\* The payload's schedule is weekly with a list of days.
WeeklyDays(data) ==
  IF /\ IsDict(data) /\ Has(data, "when") /\ IsDict(data.v["when"])
     /\ Get(data.v["when"], "type") = Str(S_weekly)
     /\ IsList(Get(data.v["when"], "days"))
  THEN data.v["when"].v["days"].v
  ELSE <<>>

\* The weekday codes of the list that are not one of the seven valid codes.
UnrecognizedCodes(days) ==
  SelectSeq(days, LAMBDA d : IsStr(d) /\ d.v \notin {S_MON, S_TUE, S_WED, S_THU, S_FRI,
                                                     S_SAT, S_SUN})

\* C12: for a weekly schedule whose days list contains unrecognized weekday
\* codes, validation returns exactly one error about the codes, which lists
\* every invalid element in input order and the seven valid codes, and no
\* schedule is placed in the cleaned data.
C12_InvalidDaysReportedTogether ==
  (vcase.phase = "validated" /\ Len(UnrecognizedCodes(WeeklyDays(vcase.data))) > 0) =>
    /\ ~vcase.result.raised
    /\ LET bad == SelectSeq(WeeklyDays(vcase.data),
                            LAMBDA d : d \notin {Str(S_MON), Str(S_TUE), Str(S_WED),
                                                 Str(S_THU), Str(S_FRI), Str(S_SAT),
                                                 Str(S_SUN)})
       IN /\ \A i \in 1..Len(bad) : IsStr(bad[i])
          /\ SelectSeq(vcase.result.errors,
                       LAMBDA e : e.msg = "Invalid days: {}. Valid options: {}")
               = <<Err("Invalid days: {}. Valid options: {}",
                       <<Join(<<",", " ">>, [i \in 1..Len(bad) |-> bad[i].v]),
                         Join(<<",", " ">>,
                              <<S_MON, S_TUE, S_WED, S_THU, S_FRI, S_SAT, S_SUN>>)>>)>>
    /\ ~Has(vcase.result.cleaned, "when")

\* C13: deletion is idempotent.  A DELETE that finds the record and whose
\* trigger is not registered goes on to delete the record, and 204 is the
\* answer when the store accepts the deletion; a DELETE for a key with no
\* record (deleted before, or never created) makes no scheduler call, leaves
\* the store and the scheduler as they were at every step, and answers 204
\* when its store calls succeed.
C13_DeleteIdempotent ==
  [][\A p \in Procs :
       LET r == req[p]
           r2 == req'[p]
       IN (r.method = "DELETE" /\ r.pc \notin {"idle", "done"}) =>
            /\ (r.old = None) => (store' = store /\ sched' = sched)
            /\ (r.pc = "del_delete_schedule" /\ Key(r.user, r.rid) \in DOMAIN store
                  /\ r.old.v["scheduleName"].v \notin DOMAIN sched
                  /\ r2.calls[Len(r2.calls)].outcome = "not_found") =>
                 (r2.pc = "del_delete_item" /\ store' = store /\ sched' = sched)
            /\ (r2.pc = "done" /\ \A i \in 1..Len(r2.calls) :
                                     r2.calls[i].outcome \in {"ok", "not_found"}) =>
                 /\ r2.status = 204
                 /\ Key(r.user, r.rid) \notin DOMAIN store'
                 /\ r.old = None => Ops(r2) = <<"get_item", "delete_item">>
                 /\ r.old # None =>
                      Ops(r2) \in {<<"get_item", "delete_schedule", "delete_item">>,
                                   <<"get_item", "delete_item">>}
  ]_vars

\* A DELETE answered 204 for a routine that was created earlier and whose
\* record a previous DELETE had removed, the trigger having outlived it.
C13_Witness ==
  \E p \in Procs :
    LET r == req[p] IN
    /\ r.method = "DELETE" /\ r.pc = "done" /\ r.status = 204
    /\ r.old = None
    /\ r.rid.v \in issued
    /\ Key(r.user, r.rid) \notin DOMAIN store
    /\ ScheduleName(r.user.v, r.rid.v) \in DOMAIN sched

\* A DELETE answered 204 although the trigger named by its record was not
\* registered.
C13_WitnessNotFound ==
  \E p \in Procs :
    LET r == req[p] IN
    /\ r.method = "DELETE" /\ r.pc = "done" /\ r.status = 204
    /\ Len(r.calls) = 3 /\ r.calls[2].outcome = "not_found"

\* Decimal digits of n < 100, without and with a leading zero.
Dec(n) == IF n < 10 THEN <<DigitChar(n)>> ELSE <<DigitChar(n \div 10), DigitChar(n % 10)>>
Pad2(n) == <<DigitChar(n \div 10), DigitChar(n % 10)>>

\* The texts the validator accepts for the time h:m: the hour with or
\* without a leading zero, and either form followed by a line feed.
TimeTexts(h, m) ==
  LET forms == {Pad2(h) \o <<":">> \o Pad2(m)}
               \cup (IF h < 10 THEN {Dec(h) \o <<":">> \o Pad2(m)} ELSE {})
  IN forms \cup {f \o <<"\n">> : f \in forms}

\* The validator accepted the body with a schedule of this type, and the
\* routine reached create_schedule.
CompiledType(type) ==
  /\ vcase.phase = "compiled"
  /\ vcase.result.cleaned.v["when"].v["type"] = Str(type)

\* C14: for every accepted daily schedule with time h:m the trigger handed
\* to the scheduler has the expression cron(m h * * ? *), m and h unpadded,
\* and the timezone of the routine.
C14_DailyExpression ==
  CompiledType(S_daily) =>
    LET w == vcase.result.cleaned.v["when"] IN
    \E h \in 0..23, m \in 0..59 :
      /\ w.v["time"].v \in TimeTexts(h, m)
      /\ vcase.request.ok
      /\ vcase.request.trigger.expr
           = Str(<<"c", "r", "o", "n", "(">> \o Dec(m) \o <<" ">> \o Dec(h)
                 \o <<" ", "*", " ", "*", " ", "?", " ", "*", ")">>)
      /\ vcase.request.trigger.tz = vcase.routine.v["timezone"]

\* A daily schedule at 08:05 in the payload's timezone UTC, compiled to
\* cron(5 8 * * ? *).
C14_Witness ==
  /\ CompiledType(S_daily)
  /\ vcase.result.cleaned.v["when"].v["time"] = Str(S_0805)
  /\ Get(vcase.data, "timezone") = Str(S_UTC)
  /\ vcase.request.trigger.expr
       = Str(<<"c", "r", "o", "n", "(", "5", " ", "8", " ", "*", " ", "*", " ", "?", " ", "*", ")">>)
  /\ vcase.request.trigger.tz = Str(S_UTC)

\* C15: for every accepted weekly schedule with days D1..Dn and time h:m the
\* trigger handed to the scheduler has the expression
\* cron(m h ? * D1,...,Dn *): the days in the order of the payload, repeated
\* ones kept.
C15_WeeklyExpression ==
  CompiledType(S_weekly) =>
    LET w == vcase.result.cleaned.v["when"]
        d == IF Has(vcase.data.v["when"], "days")
             THEN vcase.data.v["when"].v["days"].v
             ELSE <<Str(S_MON)>>
    IN \E h \in 0..23, m \in 0..59 :
         /\ w.v["time"].v \in TimeTexts(h, m)
         /\ vcase.request.ok
         /\ vcase.request.trigger.expr
              = Str(<<"c", "r", "o", "n", "(">> \o Dec(m) \o <<" ">> \o Dec(h)
                    \o <<" ", "?", " ", "*", " ">>
                    \o Join(<<",">>, [i \in 1..Len(d) |-> d[i].v])
                    \o <<" ", "*", ")">>)

\* A weekly schedule on WED,MON at 7:30 compiled to cron(30 7 ? * WED,MON *).
C15_Witness ==
  /\ CompiledType(S_weekly)
  /\ vcase.result.cleaned.v["when"].v["time"] = Str(S_730)
  /\ vcase.result.cleaned.v["when"].v["days"] = List(<<Str(S_WED), Str(S_MON)>>)
  /\ vcase.request.trigger.expr
       = Str(<<"c", "r", "o", "n", "(", "3", "0", " ", "7", " ", "?", " ", "*", " ",
               "W", "E", "D", ",", "M", "O", "N", " ", "*", ")">>)

\* A weekly schedule with a repeated day, compiled with the day twice.
C15_WitnessRepeated ==
  /\ CompiledType(S_weekly)
  /\ vcase.result.cleaned.v["when"].v["days"] = List(<<Str(S_SUN), Str(S_SUN)>>)
  /\ SubSeq(vcase.request.trigger.expr.v, Len(vcase.request.trigger.expr.v) - 9,
            Len(vcase.request.trigger.expr.v) - 3)
       = <<"S", "U", "N", ",", "S", "U", "N">>

\* The routines the export has gone through, with what create_ics_event
\* returned for each.
Exported == IF ics.phase \in {"loop", "done"} THEN 1..Len(ics.events) ELSE {}
\* The schedule type of the i-th routine of the batch, None if it has none.
TypeOf(i) ==
  LET w == Get(ics.routines[i], "when") IN
  IF IsDict(w) THEN Get(w, "type") ELSE None
\* The days of the i-th routine's schedule: the list given, or the default.
DaysOf(i) ==
  LET w == ics.routines[i].v["when"] IN
  IF ~Has(w, "days") THEN <<Str(S_MON)>>
  ELSE IF IsList(w.v["days"]) THEN w.v["days"].v ELSE <<>>

StartsWith(line, prefix) ==
  Len(line) >= Len(prefix) /\ SubSeq(line, 1, Len(prefix)) = prefix
\* The lines of the event that are RRULE properties.
RruleLines(lines) == SelectSeq(lines, LAMBDA l : StartsWith(l, <<"R", "R", "U", "L", "E">>))

\* The RFC 5545 code of a weekday code, <<>> if it has none.
ByDayCode(d) ==
  IF ~IsStr(d) THEN <<>>
  ELSE CASE d.v = S_MON -> <<"M", "O">> [] d.v = S_TUE -> <<"T", "U">>
         [] d.v = S_WED -> <<"W", "E">> [] d.v = S_THU -> <<"T", "H">>
         [] d.v = S_FRI -> <<"F", "R">> [] d.v = S_SAT -> <<"S", "A">>
         [] d.v = S_SUN -> <<"S", "U">> [] OTHER -> <<>>
\* The codes of the days that have one, in the order of the days.
ByDayCodes(days) ==
  LET known == SelectSeq(days, LAMBDA d : ByDayCode(d) # <<>>)
  IN [i \in 1..Len(known) |-> ByDayCode(known[i])]

\* C16: the RRULE line of an exported VEVENT is determined by the schedule
\* type: a daily routine has the one line RRULE:FREQ=DAILY, a weekly routine
\* the one line RRULE:FREQ=WEEKLY;BYDAY= followed by the codes MO TU WE TH FR
\* SA SU of its days in the order of the days, a cron routine no RRULE line.
C16_RruleByType ==
  \A i \in Exported :
    ics.events[i].ok =>
      LET rrule == RruleLines(ics.events[i].lines) IN
      /\ TypeOf(i) \in {Str(S_daily), Str(S_weekly), Str(S_cron)}
      /\ TypeOf(i) = Str(S_daily) =>
           rrule = <<<<"R", "R", "U", "L", "E", ":", "F", "R", "E", "Q", "=",
                       "D", "A", "I", "L", "Y">>>>
      /\ TypeOf(i) = Str(S_weekly) =>
           rrule = <<<<"R", "R", "U", "L", "E", ":", "F", "R", "E", "Q", "=",
                       "W", "E", "E", "K", "L", "Y", ";", "B", "Y", "D", "A", "Y", "=">>
                     \o Join(<<",">>, ByDayCodes(DaysOf(i)))>>
      /\ TypeOf(i) = Str(S_cron) => rrule = <<>>

\* An export that emitted a weekly routine on FRI,MON as BYDAY=FR,MO.
C16_Witness ==
  \E i \in Exported :
    /\ ics.events[i].ok
    /\ TypeOf(i) = Str(S_weekly)
    /\ DaysOf(i) = <<Str(S_FRI), Str(S_MON)>>
    /\ Len(ics.events[i].lines) = 8
    /\ ics.events[i].lines[7]
         = <<"R", "R", "U", "L", "E", ":", "F", "R", "E", "Q", "=", "W", "E", "E", "K",
             "L", "Y", ";", "B", "Y", "D", "A", "Y", "=", "F", "R", ",", "M", "O">>

\* An export that emitted a cron routine.
C16_WitnessCron ==
  \E i \in Exported :
    ics.events[i].ok /\ TypeOf(i) = Str(S_cron) /\ Len(ics.events[i].lines) = 7

\* The time of the i-th routine's schedule: the text given, or the default.
TimeOf(i) == GetD(ics.routines[i].v["when"], "time", Str(S_0700))
\* The timezone of the i-th routine as text: the one given, or the default.
ZoneOf(i) == GetD(ics.routines[i], "timezone", Str(S_America_New_York)).v

\* The lines of the event that are DTSTART properties.
DtstartLines(lines) ==
  SelectSeq(lines, LAMBDA l : StartsWith(l, <<"D", "T", "S", "T", "A", "R", "T">>))
\* DTSTART;TZID=<zone>:19700105T<hhmm>00
DtstartLine(zone, hhmm) ==
  <<"D", "T", "S", "T", "A", "R", "T", ";", "T", "Z", "I", "D", "=">> \o zone
  \o <<":", "1", "9", "7", "0", "0", "1", "0", "5", "T">> \o hhmm \o <<"0", "0">>

\* C17: every exported VEVENT has the one DTSTART line
\* DTSTART;TZID=<timezone of the routine>:19700105T<HH><MM>00, HH and MM
\* being the hour and minute of the schedule padded to two digits for a daily
\* or weekly routine and 0700 for a cron routine, whatever the generation
\* time.
C17_DtstartAnchored ==
  \A i \in Exported :
    ics.events[i].ok =>
      LET dtstart == DtstartLines(ics.events[i].lines) IN
      IF TypeOf(i) = Str(S_cron)
      THEN dtstart = <<DtstartLine(ZoneOf(i), <<"0", "7", "0", "0">>)>>
      ELSE \E h \in 0..23, m \in 0..59 :
             /\ TimeOf(i).v \in TimeTexts(h, m)
             /\ dtstart = <<DtstartLine(ZoneOf(i), Pad2(h) \o Pad2(m))>>

\* An export that emitted a daily routine at 0:05 in UTC with
\* DTSTART;TZID=UTC:19700105T000500.
C17_Witness ==
  \E i \in Exported :
    /\ ics.events[i].ok
    /\ TypeOf(i) = Str(S_daily)
    /\ TimeOf(i) = Str(<<"0", ":", "0", "5">>)
    /\ ics.events[i].lines[6]
         = <<"D", "T", "S", "T", "A", "R", "T", ";", "T", "Z", "I", "D", "=", "U", "T", "C",
             ":", "1", "9", "7", "0", "0", "1", "0", "5", "T", "0", "0", "0", "5", "0", "0">>

\* The days of the schedule are weekday codes or other scalars (no nested
\* list or object).
ScalarDays(days) == \A k \in 1..Len(days) : ~IsList(days[k]) /\ ~IsDict(days[k])

\* The schedule of the i-th routine is weekly with a parseable time and a
\* list of days (or none, which stands for MON).
WeeklyWithDays(i) ==
  /\ TypeOf(i) = Str(S_weekly)
  /\ \E h \in 0..23, m \in 0..59 : IsStr(TimeOf(i)) /\ TimeOf(i).v \in TimeTexts(h, m)
  /\ Has(ics.routines[i].v["when"], "days") => IsList(ics.routines[i].v["when"].v["days"])
  /\ ScalarDays(DaysOf(i))

\* The exportable fields other than the schedule are well formed: steps is
\* absent or a list of strings.
PlainSteps(i) ==
  LET st == GetD(ics.routines[i], "steps", List(<<>>)) IN
  IsList(st) /\ \A k \in 1..Len(st.v) : IsStr(st.v[k])

\* The text after BYDAY= in the lines of an event, one per RRULE line that
\* has a BYDAY.
ByDayValues(lines) ==
  LET pre == <<"R", "R", "U", "L", "E", ":", "F", "R", "E", "Q", "=", "W", "E", "E", "K",
               "L", "Y", ";", "B", "Y", "D", "A", "Y", "=">>
      with == SelectSeq(lines, LAMBDA l : StartsWith(l, pre))
  IN [k \in 1..Len(with) |-> SubSeq(with[k], Len(pre) + 1, Len(with[k]))]

\* C18: in the export of a weekly routine every day without a mapping is
\* dropped from BYDAY and the mapped ones are kept, in order; when no day
\* remains the routine is skipped, so no emitted VEVENT has an empty BYDAY=.
C18_UnmappedDaysDropped ==
  \A i \in Exported :
    /\ ics.events[i].ok =>
         \A k \in 1..Len(ByDayValues(ics.events[i].lines)) :
           Len(ByDayValues(ics.events[i].lines)[k]) > 0
    /\ (WeeklyWithDays(i) /\ PlainSteps(i)) =>
         IF ByDayCodes(DaysOf(i)) = <<>>
         THEN ~ics.events[i].ok
         ELSE /\ ics.events[i].ok
              /\ ByDayValues(ics.events[i].lines)
                   = <<Join(<<",">>, ByDayCodes(DaysOf(i)))>>

\* An export that emitted a weekly routine on FUNDAY,TUE,1 with BYDAY=TU.
C18_Witness ==
  \E i \in Exported :
    /\ ics.events[i].ok
    /\ TypeOf(i) = Str(S_weekly)
    /\ DaysOf(i) = <<Str(S_FUNDAY), Str(S_TUE), Num(1)>>
    /\ ByDayValues(ics.events[i].lines) = <<<<"T", "U">>>>

\* An export that skipped a weekly routine whose only day is FUNDAY.
C18_WitnessSkipped ==
  \E i \in Exported :
    /\ ~ics.events[i].ok
    /\ WeeklyWithDays(i)
    /\ DaysOf(i) = <<Str(S_FUNDAY)>>

\* The record can be exported: its steps, if any, are text, and its schedule
\* is daily with a parseable time, weekly with a parseable time and at least
\* one mapped day, or cron.
Exportable(r) ==
  LET st == GetD(r, "steps", List(<<>>))
      w == GetD(r, "when", EmptyDict)
      parseable == \E h \in 0..23, m \in 0..59 :
                     LET t == GetD(w, "time", Str(S_0700)) IN
                     IsStr(t) /\ t.v \in TimeTexts(h, m)
      days == GetD(w, "days", List(<<Str(S_MON)>>))
  IN /\ \/ ~Truthy(st)
        \/ IsStr(st)
        \/ IsList(st) /\ \A k \in 1..Len(st.v) : IsStr(st.v[k])
     /\ IsDict(w)
     /\ \/ Get(w, "type") = Str(S_daily) /\ parseable
        \/ /\ Get(w, "type") = Str(S_weekly) /\ parseable
           /\ IsList(days) /\ ScalarDays(days.v) /\ ByDayCodes(days.v) # <<>>
        \/ Get(w, "type") = Str(S_cron)

\* The positions of the document at which a line begins, the lines being
\* separated by CR LF.
LineStarts(doc) ==
  {1} \cup {p + 2 : p \in {q \in 1..(Len(doc) - 1) : doc[q] = "\r" /\ doc[q + 1] = "\n"}}
\* The line that begins at position p is `text`.
LineAt(doc, p, text) ==
  LET e == p + Len(text) - 1 IN
  /\ e <= Len(doc)
  /\ SubSeq(doc, p, e) = text
  /\ e = Len(doc) \/ (e + 2 <= Len(doc) /\ doc[e + 1] = "\r" /\ doc[e + 2] = "\n")
\* The number of lines of the document that are `text`.
CountLines(doc, text) == Cardinality({p \in LineStarts(doc) : LineAt(doc, p, text)})

\* BEGIN:VCALENDAR ... METHOD:PUBLISH, each followed by CR LF
HeaderText ==
  <<"B", "E", "G", "I", "N", ":", "V", "C", "A", "L", "E", "N", "D", "A", "R", "\r", "\n",
    "V", "E", "R", "S", "I", "O", "N", ":", "2", ".", "0", "\r", "\n",
    "P", "R", "O", "D", "I", "D", ":", "-", "/", "/", "S", "h", "e", "G", "l", "o", "w",
    "/", "/", "C", "o", "n", "c", "i", "e", "r", "g", "e", " ", "C", "a", "l", "e", "n",
    "d", "a", "r", "/", "/", "E", "N", "\r", "\n",
    "C", "A", "L", "S", "C", "A", "L", "E", ":", "G", "R", "E", "G", "O", "R", "I", "A",
    "N", "\r", "\n",
    "M", "E", "T", "H", "O", "D", ":", "P", "U", "B", "L", "I", "S", "H", "\r", "\n">>
FooterText == <<"E", "N", "D", ":", "V", "C", "A", "L", "E", "N", "D", "A", "R">>

\* C19: for every batch, create_ics_event returns an event or None for each
\* routine (no exception leaves it), every routine gone through is emitted
\* or skipped, and the finished document starts with the VCALENDAR header,
\* ends with END:VCALENDAR, emits exactly the exportable routines and has one
\* BEGIN:VEVENT line and one END:VEVENT line per emitted routine.
C19_ExportNeverAborts ==
  /\ ics.phase = "loop" =>
       /\ ics.event_count + ics.skipped = ics.i - 1
       /\ ics.i <= Len(ics.routines) =>
            \A now \in Nows : create_ics_event(ics.routines[ics.i], now).ok \in BOOLEAN
  /\ ics.phase = "done" =>
       LET doc == ics.document
           n == Len(ics.routines)
           exportable == {i \in 1..n : Exportable(ics.routines[i])}
       IN /\ StartsWith(doc, HeaderText)
          /\ SubSeq(doc, Len(doc) - Len(FooterText) - 1, Len(doc))
               = <<"\r", "\n">> \o FooterText
          /\ ics.event_count + ics.skipped = n
          /\ ics.event_count = Cardinality(exportable)
          /\ \A i \in 1..n : ics.events[i].ok <=> i \in exportable
          /\ CountLines(doc, <<"B", "E", "G", "I", "N", ":", "V", "E", "V", "E", "N", "T">>)
               = ics.event_count
          /\ CountLines(doc, <<"E", "N", "D", ":", "V", "E", "V", "E", "N", "T">>)
               = ics.event_count

\* The escape of one character: backslash, comma and semicolon get a
\* backslash before them, a line feed becomes backslash n, a carriage return
\* disappears, any other character stays.
EscapedChar(c) ==
  CASE c = "\\" -> <<"\\", "\\">>
    [] c = "," -> <<"\\", ",">>
    [] c = ";" -> <<"\\", ";">>
    [] c = "\n" -> <<"\\", "n">>
    [] c = "\r" -> <<>>
    [] OTHER -> <<c>>

\* The text escaped character by character (computed half by half).
RECURSIVE EscapedText(_)
EscapedText(text) ==
  IF Len(text) = 0 THEN <<>>
  ELSE IF Len(text) = 1 THEN EscapedChar(text[1])
  ELSE LET h == Len(text) \div 2 IN
       EscapedText(SubSeq(text, 1, h)) \o EscapedText(SubSeq(text, h + 1, Len(text)))

Occurrences(text, c) == Cardinality({k \in 1..Len(text) : text[k] = c})

\* C20: for every text whose escape is not longer than the limit,
\* escape_ics_text returns the text escaped character by character; the
\* output has no line feed and no carriage return, and two backslashes for
\* every backslash of the input besides the one added for each comma,
\* semicolon and line feed.
C20_EscapeIsCharacterWise ==
  (/\ ics.phase = "escaped"
   /\ IsStr(ics.text)
   /\ Len(EscapedText(ics.text.v)) <= 500) =>
    /\ ics.out = EscapedText(ics.text.v)
    /\ Occurrences(ics.out, "\n") = 0
    /\ Occurrences(ics.out, "\r") = 0
    /\ Occurrences(ics.out, "\\")
         = 2 * Occurrences(ics.text.v, "\\") + Occurrences(ics.text.v, ",")
           + Occurrences(ics.text.v, ";") + Occurrences(ics.text.v, "\n")

\* The text backslash, comma, line feed escaped to backslash backslash,
\* backslash comma, backslash n.
C20_Witness ==
  /\ ics.phase = "escaped"
  /\ ics.text = Str(<<"\\", ",", "\n">>)
  /\ ics.out = <<"\\", "\\", "\\", ",", "\\", "n">>

\* The text A, B; C and a line feed escaped with no line feed left.
C20_WitnessExample ==
  /\ ics.phase = "escaped"
  /\ ics.text = Str(<<"A", ",", " ", "B", ";", " ", "C", "\n">>)
  /\ ics.out = <<"A", "\\", ",", " ", "B", "\\", ";", " ", "C", "\\", "n">>

\* The value of the property of an event whose line starts with `prefix`,
\* one per such line.
PropertyValues(lines, prefix) ==
  LET with == SelectSeq(lines, LAMBDA l : StartsWith(l, prefix))
  IN [k \in 1..Len(with) |-> SubSeq(with[k], Len(prefix) + 1, Len(with[k]))]
EndsWith(text, suffix) ==
  Len(text) >= Len(suffix)
  /\ SubSeq(text, Len(text) - Len(suffix) + 1, Len(text)) = suffix

\* The title of the i-th routine as the text that is escaped.
TitleText(i) ==
  LET ti == GetD(ics.routines[i], "title", Str(<<"R", "o", "u", "t", "i", "n", "e">>)) IN
  IF IsStr(ti) THEN ti.v ELSE <<>>
\* The description of the i-th routine before it is escaped: the steps
\* joined by "; " after "SheGlow routine steps: ", or "SheGlow routine".
DescriptionText(i) ==
  LET st == GetD(ics.routines[i], "steps", List(<<>>)) IN
  IF IsList(st) /\ Len(st.v) > 0
  THEN <<"S", "h", "e", "G", "l", "o", "w", " ", "r", "o", "u", "t", "i", "n", "e", " ",
         "s", "t", "e", "p", "s", ":", " ">>
       \o Join(<<";", " ">>, [k \in 1..Len(st.v) |-> st.v[k].v])
  ELSE <<"S", "h", "e", "G", "l", "o", "w", " ", "r", "o", "u", "t", "i", "n", "e">>

\* The record has a text title and steps that are absent or a list of texts.
PlainRecord(i) ==
  /\ IsStr(GetD(ics.routines[i], "title", Str(<<"R">>)))
  /\ PlainSteps(i)

\* C21: the SUMMARY and the DESCRIPTION value of every emitted VEVENT, daily,
\* weekly or cron, is at most 500 characters long and ends with "..." exactly
\* when the escaped title, respectively the escaped description, was longer
\* than 500 characters.
C21_FreeTextBounded ==
  \A i \in Exported :
    (ics.events[i].ok /\ PlainRecord(i)) =>
      LET summary == PropertyValues(ics.events[i].lines, <<"S", "U", "M", "M", "A", "R", "Y", ":">>)
          description ==
            PropertyValues(ics.events[i].lines,
                           <<"D", "E", "S", "C", "R", "I", "P", "T", "I", "O", "N", ":">>)
      IN /\ Len(summary) = 1 /\ Len(description) = 1
         /\ Len(summary[1]) <= 500
         /\ Len(description[1]) <= 500
         /\ EndsWith(summary[1], <<".", ".", ".">>)
              <=> Len(EscapedText(TitleText(i))) > 500
         /\ EndsWith(description[1], <<".", ".", ".">>)
              <=> Len(EscapedText(DescriptionText(i))) > 500

\* The lines with every DTSTAMP line cut down to its property name.
StampMasked(lines) ==
  [k \in 1..Len(lines) |->
     IF StartsWith(lines[k], <<"D", "T", "S", "T", "A", "M", "P", ":">>)
     THEN <<"D", "T", "S", "T", "A", "M", "P", ":">> ELSE lines[k]]

\* The lines of the document the same batch yields when every event is
\* generated at the instant `now`.
RECURSIVE EventsAt(_, _)
EventsAt(routines, now) ==
  IF Len(routines) = 0 THEN <<>>
  ELSE LET event == create_ics_event(Head(routines), now) IN
       (IF event.ok THEN event.lines ELSE <<>>) \o EventsAt(Tail(routines), now)
DocumentAt(routines, now) ==
  <<<<"B", "E", "G", "I", "N", ":", "V", "C", "A", "L", "E", "N", "D", "A", "R">>,
    <<"V", "E", "R", "S", "I", "O", "N", ":", "2", ".", "0">>,
    <<"P", "R", "O", "D", "I", "D", ":", "-", "/", "/", "S", "h", "e", "G", "l", "o", "w",
      "/", "/", "C", "o", "n", "c", "i", "e", "r", "g", "e", " ", "C", "a", "l", "e", "n",
      "d", "a", "r", "/", "/", "E", "N">>,
    <<"C", "A", "L", "S", "C", "A", "L", "E", ":", "G", "R", "E", "G", "O", "R", "I", "A",
      "N">>,
    <<"M", "E", "T", "H", "O", "D", ":", "P", "U", "B", "L", "I", "S", "H">>>>
  \o EventsAt(routines, now)
  \o <<<<"E", "N", "D", ":", "V", "C", "A", "L", "E", "N", "D", "A", "R">>>>

\* The routineId of the i-th routine is a text.
HasTextId(i) == IsStr(Get(ics.routines[i], "routineId"))
UidValues(i) == PropertyValues(ics.events[i].lines, <<"U", "I", "D", ":">>)

\* C22: the document of a batch differs from the document the same batch
\* yields at any other instant in the DTSTAMP lines only; the UID of every
\* emitted VEVENT is the routineId followed by @sheglow.app, so emitted
\* routines have the same UID exactly when they have the same routineId.
C22_DeterministicButStamp ==
  /\ ics.phase = "done" =>
       \A now \in Nows :
         /\ Len(DocumentAt(ics.routines, now)) = Len(ics.lines)
         /\ StampMasked(DocumentAt(ics.routines, now)) = StampMasked(ics.lines)
         /\ Join(<<"\r", "\n">>, StampMasked(DocumentAt(ics.routines, now)))
              = Join(<<"\r", "\n">>, StampMasked(ics.lines))
  /\ \A i \in Exported :
       (ics.events[i].ok /\ HasTextId(i)) =>
         /\ UidValues(i)
              = <<ics.routines[i].v["routineId"].v
                  \o <<"@", "s", "h", "e", "g", "l", "o", "w", ".", "a", "p", "p">>>>
         /\ \A j \in Exported :
              (ics.events[j].ok /\ HasTextId(j)) =>
                ((UidValues(i) = UidValues(j))
                   <=> (ics.routines[i].v["routineId"] = ics.routines[j].v["routineId"]))

\* The document of three routines of which the first and the third have the
\* same routineId and the second another, the events generated at two
\* different instants.
C22_Witness ==
  /\ ics.phase = "done"
  /\ ics.event_count = 3
  /\ \A i \in 1..3 : ics.events[i].ok /\ HasTextId(i)
  /\ ics.events[1].lines[3] # ics.events[2].lines[3]
  /\ ics.lines # DocumentAt(ics.routines, CHOOSE now \in Nows : TRUE)
  /\ UidValues(1) = UidValues(3)
  /\ UidValues(1) # UidValues(2)

\* The calls of the request that read or write the routines store.
StoreCalls(r) ==
  CallsOf(r, "get_item") \cup CallsOf(r, "put_item") \cup CallsOf(r, "delete_item")

\* C23: the routineId and the userId of a record never change: every stored
\* record carries the userId and routineId it is stored under, an update,
\* successful or failed, adds no record and removes none and works on a copy
\* that keeps both ids, and every step of a request reads, writes or deletes
\* only records whose userId is the id of the authenticated user.
C23_IdentityImmutable ==
  [][/\ \A k \in DOMAIN store' :
          /\ store'[k].v["userId"] = Str(k[1])
          /\ store'[k].v["routineId"] = Str(k[2])
     /\ \A k \in DOMAIN store \cap DOMAIN store' :
          /\ store'[k].v["userId"] = store[k].v["userId"]
          /\ store'[k].v["routineId"] = store[k].v["routineId"]
     /\ \A k \in DOMAIN store \cup DOMAIN store' :
          (\/ (k \in DOMAIN store) # (k \in DOMAIN store')
           \/ k \in DOMAIN store /\ k \in DOMAIN store' /\ store'[k] # store[k]) =>
            \E p \in Procs : req'[p] # req[p] /\ req[p].user = Str(k[1])
     /\ \A p \in Procs :
          LET r == req'[p] IN
          /\ r.method = "PUT" => DOMAIN store' = DOMAIN store
          /\ (r.method = "PUT" /\ r.routine # None) =>
               /\ r.routine.v["userId"] = r.user
               /\ r.routine.v["routineId"] = r.rid
               /\ r.routine.v["userId"] = r.old.v["userId"]
               /\ r.routine.v["routineId"] = r.old.v["routineId"]
          /\ \A i \in StoreCalls(r) :
               StartsWith(r.calls[i].name, r.user.v \o <<"/">>)
    ]_vars

\* An update answered 200 whose payload named another owner and another id:
\* the record is still the only one, under the ids it was created with.
C23_Witness ==
  \E p \in Procs :
    LET r == req[p] IN
    /\ r.method = "PUT" /\ r.pc = "done" /\ r.status = 200
    /\ Has(r.body, "userId") /\ r.body.v["userId"] # r.user
    /\ Has(r.body, "routineId") /\ r.body.v["routineId"] # r.rid
    /\ DOMAIN store = {Key(r.user, r.rid)}
    /\ Stored(r).v["userId"] = r.user
    /\ Stored(r).v["routineId"] = r.rid
    /\ Stored(r).v["title"] = Str(<<"D">>)

\* An update of a routine by a user who does not own it: answered 404, the
\* owner's record untouched.
C23_WitnessOtherUser ==
  \E p \in Procs :
    LET r == req[p] IN
    /\ r.method = "PUT" /\ r.pc = "done" /\ r.status = 404
    /\ \E k \in DOMAIN store : k[2] = r.rid.v /\ k[1] # r.user.v

\* The text is trimmed and has lo to hi characters.
TrimmedText(x, lo, hi) ==
  IsStr(x) /\ Strip(x.v) = x.v /\ Len(x.v) >= lo /\ Len(x.v) <= hi

\* The payload carries a title or steps outside the limits of a record: a
\* title that is not a text of 1 to 100 characters once trimmed, or steps
\* that are not a list of at most 20 texts of 1 to 200 characters once
\* trimmed.
ViolatesLimits(body) ==
  /\ IsDict(body)
  /\ \/ /\ Present(body, "title")
        /\ ~(IsStr(body.v["title"])
             /\ Len(Strip(body.v["title"].v)) \in 1..100)
     \/ /\ Present(body, "steps")
        /\ ~(/\ IsList(body.v["steps"])
             /\ Len(body.v["steps"].v) <= 20
             /\ \A i \in 1..Len(body.v["steps"].v) :
                  /\ IsStr(body.v["steps"].v[i])
                  /\ Len(Strip(body.v["steps"].v[i].v)) \in 1..200)

\* C24: every stored record has a trimmed title of 1 to 100 characters and a
\* list of 0 to 20 steps, each a trimmed text of 1 to 200 characters; a
\* create or update request whose payload violates these limits writes
\* nothing: a creation makes no successful put_item, an update leaves the
\* record as it read it.
C24_StoredFieldsWithinLimits ==
  /\ \A k \in DOMAIN store :
       /\ TrimmedText(store[k].v["title"], 1, 100)
       /\ IsList(store[k].v["steps"])
       /\ Len(store[k].v["steps"].v) <= 20
       /\ \A i \in 1..Len(store[k].v["steps"].v) :
            TrimmedText(store[k].v["steps"].v[i], 1, 200)
  /\ \A p \in Procs :
       LET r == req[p] IN
       (r.method \in {"POST", "PUT"} /\ ViolatesLimits(r.body)) =>
         /\ r.method = "POST" =>
              \A i \in CallsOf(r, "put_item") : r.calls[i].outcome # "ok"
         /\ (r.method = "PUT" /\ r.old # None) => Stored(r) = r.old

\* The trigger registered under the scheduleName of the record agrees with
\* the record: same title, steps and timezone, and the expression compiled
\* from the record's schedule.
TriggerAgrees(record) ==
  /\ Truthy(Get(record, "scheduleName"))
  /\ record.v["scheduleName"].v \in DOMAIN sched
  /\ LET trigger == sched[record.v["scheduleName"].v] IN
     /\ trigger.title = record.v["title"]
     /\ trigger.steps = record.v["steps"]
     /\ trigger.tz = record.v["timezone"]
     /\ trigger.expr = ScheduleExpression(record.v["when"]).expr

BothCompleted(p, q, m1, s1, m2, s2) ==
  /\ p # q
  /\ req[p].pc = "done" /\ req[p].method = m1 /\ req[p].status = s1
  /\ req[q].pc = "done" /\ req[q].method = m2 /\ req[q].status = s2
  /\ req[p].user = req[q].user
  /\ req[p].rid = req[q].rid

\* C26: when two updates of the same routine that carry different schedules
\* have both completed with 200, however their calls interleaved, the
\* expression of the trigger registered under the record's scheduleName is
\* the one compiled from the schedule of the persisted record.
C26_ConcurrentUpdatesAgree ==
  \A p, q \in Procs :
    (/\ BothCompleted(p, q, "PUT", 200, "PUT", 200)
     /\ Has(req[p].cleaned, "when") /\ Has(req[q].cleaned, "when")
     /\ req[p].cleaned.v["when"] # req[q].cleaned.v["when"]) =>
      LET record == Stored(req[p]) IN
      /\ record # None
      /\ Truthy(Get(record, "scheduleName"))
      /\ record.v["scheduleName"].v \in DOMAIN sched
      /\ sched[record.v["scheduleName"].v].expr
           = ScheduleExpression(record.v["when"]).expr

\* No call of the request failed.
NoCallFailed(r) == \A i \in 1..Len(r.calls) : r.calls[i].outcome = "ok"

\* C27: when an update answered 200 and a delete answered 204 of the same
\* routine have both completed, no external call of either having failed,
\* the record is not in the store with its trigger missing from the
\* scheduler (a trigger without a record is the only inconsistency left).
C27_NoRecordWithoutTrigger ==
  \A p, q \in Procs :
    (/\ BothCompleted(p, q, "PUT", 200, "DELETE", 204)
     /\ NoCallFailed(req[p]) /\ NoCallFailed(req[q])) =>
      LET record == Stored(req[p]) IN
      record # None =>
        /\ Truthy(Get(record, "scheduleName"))
        /\ record.v["scheduleName"].v \in DOMAIN sched

\* The record is one the validator lets through as it is: validating its
\* title, steps, timezone and schedule as the payload of a creation reports
\* no error and returns the same four values.
Validated(r) ==
  /\ IsDict(r)
  /\ IsStr(Get(r, "routineId"))
  /\ LET payload == Dict([f \in DOMAIN r.v \ {"routineId"} |-> r.v[f]])
         v == validate_routine_data(payload, FALSE)
     IN /\ ~v.raised
        /\ Len(v.errors) = 0
        /\ \A f \in {"title", "steps", "timezone", "when"} :
             Has(r, f) /\ Has(v.cleaned, f) /\ v.cleaned.v[f] = r.v[f]

\* The text has no carriage return and no line feed.
NoLineBreak(text) == \A k \in 1..Len(text) : text[k] \notin {"\r", "\n"}

\* C28: in the document of a batch of validated routines no field introduces
\* a raw carriage return or line feed: every emitted VEVENT is its 8
\* (daily, weekly) or 7 (cron) property lines, none of them holding a line
\* break, the document has as many lines as were assembled, and the number
\* of its lines equal to BEGIN:VEVENT is the number of emitted events.
C28_NoRawLineBreak ==
  (/\ ics.phase = "done"
   /\ \A i \in 1..Len(ics.routines) : Validated(ics.routines[i])) =>
    /\ \A i \in 1..Len(ics.events) :
         ics.events[i].ok =>
           /\ Len(ics.events[i].lines) = IF TypeOf(i) = Str(S_cron) THEN 7 ELSE 8
           /\ \A k \in 1..Len(ics.events[i].lines) : NoLineBreak(ics.events[i].lines[k])
    /\ Cardinality(LineStarts(ics.document)) = Len(ics.lines)
    /\ CountLines(ics.document,
                  <<"B", "E", "G", "I", "N", ":", "V", "E", "V", "E", "N", "T">>)
         = ics.event_count

\* The number of backslashes that stand in a row right before position k.
BackslashesBefore(text, k) ==
  LET others == {j \in 1..(k - 1) : text[j] # "\\"}
  IN IF others = {} THEN k - 1 ELSE k - 1 - SetMax(others)

\* Reading the text from the left, every backslash that opens an escape
\* sequence is followed by a backslash, a comma, a semicolon or the letter n.
PairsComplete(text) ==
  \A k \in 1..Len(text) :
    (text[k] = "\\" /\ BackslashesBefore(text, k) % 2 = 0) =>
      /\ k < Len(text)
      /\ text[k + 1] \in {"\\", ",", ";", "n"}

\* C29: in the output of escape_ics_text every backslash belongs to a
\* complete pair (two backslashes, backslash comma, backslash semicolon or
\* backslash n), also when the escaped text was cut at 497 characters and
\* the marker appended.
C29_TruncationKeepsPairs ==
  ics.phase = "escaped" => PairsComplete(ics.out)

\* The record is one a successful create or update persists: the validator
\* lets its fields through as they are, and its schedule compiles, so that
\* create_schedule reached the scheduler with it.
Persistable(r) ==
  /\ Validated(r)
  /\ ScheduleExpression(r.v["when"]).ok

\* C30: every record persisted through a successful create or update is
\* exported as exactly one VEVENT and never skipped, so the export of a
\* user's stored routines has as many VEVENTs as there are records: as many
\* emitted events, and as many BEGIN:VEVENT and END:VEVENT lines.
C30_PersistedRecordsExported ==
  /\ \A i \in Exported :
       Persistable(ics.routines[i]) =>
         /\ ics.events[i].ok
         /\ Len(ics.events[i].lines) \in {7, 8}
         /\ {k \in 1..Len(ics.events[i].lines) :
               ics.events[i].lines[k]
                 = <<"B", "E", "G", "I", "N", ":", "V", "E", "V", "E", "N", "T">>} = {1}
         /\ {k \in 1..Len(ics.events[i].lines) :
               ics.events[i].lines[k] = <<"E", "N", "D", ":", "V", "E", "V", "E", "N", "T">>}
              = {Len(ics.events[i].lines)}
  /\ (/\ ics.phase = "done"
      /\ \A i \in 1..Len(ics.routines) : Persistable(ics.routines[i])) =>
       /\ ics.event_count = Len(ics.routines)
       /\ ics.skipped = 0
       /\ CountLines(ics.document, <<"B", "E", "G", "I", "N", ":", "V", "E", "V", "E", "N", "T">>)
            = Len(ics.routines)
       /\ CountLines(ics.document, <<"E", "N", "D", ":", "V", "E", "V", "E", "N", "T">>)
            = Len(ics.routines)

====
